---------------------------- MODULE Spec2Model ----------------------------
(***************************************************************************)
(* Brick-breaker: the live collision engine (src/src/game/physics.py) and  *)
(* the frame handler that drives it (src/src/game/game_logic.py).          *)
(*                                                                         *)
(* Numbers.  The program computes in Python floats.  The model computes in *)
(* exact rationals: a ball is a record of numerators x, y, vx, vy over one *)
(* common positive denominator den (kept in lowest terms), and radius is   *)
(* the int the constructor stores.  math.hypot is modelled by an exact     *)
(* integer root; the inputs and the frames of the model are those for      *)
(* which every root the code takes is exact (see Exact...), so every step  *)
(* of the model is the real-arithmetic value of the code's step.           *)
(***************************************************************************)
EXTENDS Integers, Sequences, FiniteSets, TLC

VARIABLES
    \* the program's state
    ball,       \* the live Ball: [x, y, vx, vy, den, radius]
    hit,        \* Brick.hit of every brick, by list index
    special,    \* Brick.is_special of every brick, by list index
    attached,   \* BrickBreakerGame.ball_attached
    auto,       \* BrickBreakerGame.paddle_auto_mode
    boost,      \* BrickBreakerGame.ball_boost_active
    normal,     \* (ball_normal_vx, ball_normal_vy): [vx, vy, den]
    paddle_pos, \* BrickBreakerGame.paddle_pos_x, a numerator over PosDen
    scale,      \* Ball._powerup_scale (1 or 2)
    end_time,   \* Ball._powerup_end_time
    now,        \* pygame.time.get_ticks()
    \* the last operation and what it was handed
    op,         \* "init", "wall", "paddle", "brick", "launch", "toggle", "frame"
    ret,        \* what the last physics call returned (TRUE/FALSE, or a brick index, -1 for None)
    width,      \* the window width handed to the last call
    px,         \* paddle_draw_x handed to the last call / computed by the last frame
    pre,        \* the ball when the last operation started
    preHit,     \* hit when the last operation started
    mid,        \* the ball when the last check_brick_collision started
    midHit,     \* hit when the last check_brick_collision started
    walled,     \* the ball when the last frame left check_wall_collision
    didReset,   \* the last operation called reset_bricks
    sim,        \* the locals of the prediction routine being run (see Idle)
    landing_x,  \* what the last update_paddle got from its prediction (-1: None or no call)
    target_x,   \* paddle_draw_x of the last update_paddle once clamped, before smoothing
    frames      \* frames run so far

prog == <<ball, hit, special, attached, auto, boost, normal, paddle_pos, scale, end_time, now>>
hist == <<op, ret, width, px, pre, preHit, mid, midHit, walled, didReset, sim, landing_x, target_x, frames>>
vars == <<prog, hist>>

----------------------------------------------------------------------------
(* Configuration: src/src/config/settings.py *)

WINDOW_WIDTH == 800
WINDOW_HEIGHT == 600
\* _assign_special_bricks(5)
SPECIAL_COUNT == 5
ROWS == 5
COLS == 10
BRICK_WIDTH == 60
BRICK_HEIGHT == 24
BRICK_GAP == 4
PADDLE_Y_OFFSET == 48
BALL_RADIUS == 32
\* Ball.__init__'s default radius
DEFAULT_RADIUS == 10
\* int(BRICK_WIDTH * PADDLE_WIDTH_MULTIPLIER), PADDLE_WIDTH_MULTIPLIER = 1.8
PADDLE_WIDTH == (BRICK_WIDTH * 18) \div 10

----------------------------------------------------------------------------
(* Arithmetic helpers *)

Abs(n) == IF n < 0 THEN -n ELSE n
Max(a, b) == IF a >= b THEN a ELSE b
Min(a, b) == IF a <= b THEN a ELSE b

\* Python's int() on the rational n/d, d > 0: truncation toward zero.
Trunc(n, d) == IF n >= 0 THEN n \div d ELSE -((-n) \div d)

RECURSIVE GcdNat(_, _)
GcdNat(a, b) == IF b = 0 THEN a ELSE GcdNat(b, a % b)
Gcd(a, b) == GcdNat(Abs(a), Abs(b))

\* The largest s with s*s <= n (n >= 0), by bisection on [lo, hi].
RECURSIVE RootIn(_, _, _)
RootIn(n, lo, hi) ==
    IF lo >= hi THEN lo
    ELSE LET m == (lo + hi + 1) \div 2
         IN  IF m * m <= n THEN RootIn(n, m, hi) ELSE RootIn(n, lo, m - 1)

RootBound == 40000
ISqrt(n) == RootIn(n, 0, Min(n, RootBound))
IsSquare(n) == n >= 0 /\ ISqrt(n) * ISqrt(n) = n

\* A ball in lowest terms: the same rationals, the smallest denominator.
Normalize(b) ==
    LET g == Gcd(Gcd(Gcd(b.x, b.y), Gcd(b.vx, b.vy)), b.den)
    IN  IF g <= 1 THEN b
        ELSE [b EXCEPT !.x = b.x \div g, !.y = b.y \div g, !.vx = b.vx \div g,
                       !.vy = b.vy \div g, !.den = b.den \div g]

----------------------------------------------------------------------------
(* Entities: src/src/game/entities.py *)

\* Ball.__init__: float(x), float(y), int(radius), float(vx), float(vy)
Ball(x, y, r, vx, vy) == [x |-> x, y |-> y, vx |-> vx, vy |-> vy, den |-> 1, radius |-> r]

\* Paddle.__init__ as _init_game_objects calls it (no height given):
\* height = max(8, int(width // 4)); y = WINDOW_HEIGHT - PADDLE_Y_OFFSET
Paddle == [y |-> WINDOW_HEIGHT - PADDLE_Y_OFFSET,
           width |-> PADDLE_WIDTH,
           height |-> Max(8, PADDLE_WIDTH \div 4)]

\* pygame.Rect(left, top, w, h)
Rect(l, t, w, h) == [left |-> l, top |-> t, right |-> l + w, bottom |-> t + h]

\* Rect.colliderect
CollideRect(a, b) ==
    /\ a.left < b.right /\ b.left < a.right
    /\ a.top < b.bottom /\ b.top < a.bottom

\* Ball.rect(): Rect(int(x - radius), int(y - radius), int(radius*2), int(radius*2))
BallRect(b) ==
    Rect(Trunc(b.x - b.radius * b.den, b.den), Trunc(b.y - b.radius * b.den, b.den),
         2 * b.radius, 2 * b.radius)

----------------------------------------------------------------------------
(* check_wall_collision: src/src/game/physics.py 263-283 *)

WallLeft(b) == b.x - b.radius * b.den <= 0
WallRight(b, w) == b.x + b.radius * b.den >= w * b.den
WallTop(b) == b.y - b.radius * b.den <= 0

\* check_wall_collision with the right wall tested by `if` instead of `elif`
check_wall_collision_no_elif(b, w, h) ==
    LET l == WallLeft(b)
        r == WallRight(b, w)
        t == WallTop(b)
    IN  [ball |-> [b EXCEPT
                     !.x  = IF r THEN (w - b.radius) * b.den
                            ELSE IF l THEN b.radius * b.den ELSE b.x,
                     !.vx = IF l /\ r THEN b.vx ELSE IF l \/ r THEN -b.vx ELSE b.vx,
                     !.y  = IF t THEN b.radius * b.den ELSE b.y,
                     !.vy = IF t THEN -b.vy ELSE b.vy],
         collided |-> l \/ r \/ t]

check_wall_collision(b, w, h) ==
    LET l == WallLeft(b)
        r == ~l /\ WallRight(b, w)
        t == WallTop(b)
    IN  [ball |-> [b EXCEPT
                     !.x  = IF l THEN b.radius * b.den
                            ELSE IF r THEN (w - b.radius) * b.den ELSE b.x,
                     !.vx = IF l \/ r THEN -b.vx ELSE b.vx,
                     !.y  = IF t THEN b.radius * b.den ELSE b.y,
                     !.vy = IF t THEN -b.vy ELSE b.vy],
         collided |-> l \/ r \/ t]


----------------------------------------------------------------------------
(* check_paddle_collision: src/src/game/physics.py 286-360 *)

\* outer_r = float(paddle.width) / 2.0 (the width is even)
outer_r == Paddle.width \div 2
\* thickness = max(8, int(paddle.width * 0.18))
thickness == Max(8, (Paddle.width * 18) \div 100)
\* total_h = int(leg_h + outer_r * 2.0)
total_h == Paddle.height + 2 * outer_r

left_rect(p) == Rect(p, Paddle.y, thickness, total_h)
right_rect(p) == Rect(p + Paddle.width - thickness, Paddle.y, thickness, total_h)
\* the semicircle's centre: cx = paddle_draw_x + width / 2.0, cy = paddle.y + leg_h + outer_r
circle_cx(p) == p + outer_r
circle_cy == Paddle.y + Paddle.height + outer_r

\* closest_x = max(rect.left, min(ball.x, rect.right)), as a numerator over b.den
closest_x(b, rect) == Max(rect.left * b.den, Min(b.x, rect.right * b.den))
closest_y(b, rect) == Max(rect.top * b.den, Min(b.y, rect.bottom * b.den))

\* The squared length of (nx, ny), numerators over b.den.
Len2(nx, ny) == nx * nx + ny * ny
Sq(n) == n * n

\* _do_reflect(nx, ny): v' = v - 2 (v . n^) n^ with n^ = n / hypot(n).  Only the
\* direction of n matters, so n is first reduced to its primitive direction (a, c);
\* then n^ n^T = (a, c)(a, c)^T / (a*a + c*c) and the result is rational.
\* The whole ball is brought to the new common denominator.
\* _do_reflect with the factor 2 of the reflection formula dropped
do_reflect_half(b, nx, ny) ==
    LET g == Gcd(nx, ny)
    IN  IF g = 0 THEN [ball |-> b, did |-> FALSE]
        ELSE LET a == nx \div g
                 c == ny \div g
                 n2 == a * a + c * c
                 dot == b.vx * a + b.vy * c
             IN  [ball |-> [b EXCEPT !.x = b.x * n2, !.y = b.y * n2,
                                     !.vx = b.vx * n2 - dot * a,
                                     !.vy = b.vy * n2 - dot * c,
                                     !.den = b.den * n2],
                  did |-> TRUE]

do_reflect(b, nx, ny) ==
    LET g == Gcd(nx, ny)
    IN  IF g = 0 THEN [ball |-> b, did |-> FALSE]
        ELSE LET a == nx \div g
                 c == ny \div g
                 n2 == a * a + c * c
                 dot == b.vx * a + b.vy * c
             IN  [ball |-> [b EXCEPT !.x = b.x * n2, !.y = b.y * n2,
                                     !.vx = b.vx * n2 - 2 * dot * a,
                                     !.vy = b.vy * n2 - 2 * dot * c,
                                     !.den = b.den * n2],
                  did |-> TRUE]

\* "overlap = reach - dist; if overlap > 0: ball.x += (nx / dist) * overlap" with
\* dist = hypot(nx, ny) = s / q for the numerators (nx, ny) over q of the ball
\* `orig` the normal was taken from; `b` is the ball after the reflection, over b.den.
push(b, orig, nx, ny, reach) ==
    LET q == orig.den
        k == b.den \div q          \* b's numerators are orig's times k
        moved(s) ==
            IF reach * q - s > 0
            THEN [b EXCEPT !.x = b.x * s + nx * (reach * q - s) * k,
                           !.y = b.y * s + ny * (reach * q - s) * k,
                           !.vx = b.vx * s, !.vy = b.vy * s,
                           !.den = b.den * s]
            ELSE b
    IN  Normalize(moved(ISqrt(Len2(nx, ny))))

\* What the leg loop and the semicircle block do once "dist <= reach" holds, (nx, ny)
\* being the vector from the closest point (or the centre) to the ball over b.den:
\* the reflection about (nx, ny), then the push out to `reach`.
contact_no_fallback(b, nx, ny, reach) ==
    LET pushed(f) == [touch |-> TRUE, did |-> f.did,
                      ball |-> IF nx = 0 /\ ny = 0 THEN f.ball
                               ELSE push(f.ball, b, nx, ny, reach)]
    IN  pushed(do_reflect(b, nx, ny))

\* "if dist == 0: nx, ny = 0.0, -1.0; dist = 1.0" comes first: the normal is then the
\* unit vector (0, -1), which is (0, -b.den) over b.den, and the overlap reach - 1.0
contact(b, nx, ny, reach) ==
    LET zero == nx = 0 /\ ny = 0
        mx == IF zero THEN 0 ELSE nx
        my == IF zero THEN -b.den ELSE ny
        pushed(f) == [touch |-> TRUE, did |-> f.did, ball |-> push(f.ball, b, mx, my, reach)]
    IN  pushed(do_reflect(b, mx, my))

NoContact(b) == [touch |-> FALSE, did |-> FALSE, ball |-> b]

\* One pass of the body of "for rect in (left_rect, right_rect)" (lines 317-336):
\* touch is "dist <= ball.radius" (the loop breaks), did is _do_reflect's result.
leg_test(b, rect) ==
    LET nx == b.x - closest_x(b, rect)
        ny == b.y - closest_y(b, rect)
    IN  IF Len2(nx, ny) <= Sq(b.radius * b.den)
        THEN contact(b, nx, ny, b.radius)
        ELSE NoContact(b)

\* Lines 339-358: the bottom semicircle, tested as the full circle (cx, cy, outer_r).
circle_test(b, p) ==
    LET nx == b.x - circle_cx(p) * b.den
        ny == b.y - circle_cy * b.den
    IN  IF Len2(nx, ny) <= Sq((outer_r + b.radius) * b.den)
        THEN contact(b, nx, ny, outer_r + b.radius)
        ELSE NoContact(b)

\* The loop over the two legs with its break: the first leg touched is the only one applied.
legs_pass(b, p) ==
    LET or_right(l) == IF l.touch THEN l ELSE leg_test(b, right_rect(p))
    IN  or_right(leg_test(b, left_rect(p)))

\* lines 338-358: "if not collided:" the semicircle is tested
after_legs(l, p) ==
    LET result(c) == [ball |-> c.ball, collided |-> c.did]
    IN  IF l.did THEN [ball |-> l.ball, collided |-> TRUE]
        ELSE result(circle_test(l.ball, p))

\* no break and no "if not collided": every sub-shape touched is applied in turn
check_paddle_collision_multi(b, p) ==
    LET third(l, r) ==
            LET result(c) == [ball |-> c.ball, collided |-> l.did \/ r.did \/ c.did]
            IN  result(circle_test(r.ball, p))
        second(l) == third(l, leg_test(l.ball, right_rect(p)))
    IN  IF b.vy <= 0 THEN [ball |-> b, collided |-> FALSE]
        ELSE second(leg_test(b, left_rect(p)))

\* the "if ball.vy <= 0: return False" guard dropped
check_paddle_collision_unguarded(b, p) == after_legs(legs_pass(b, p), p)

check_paddle_collision(b, p) ==
    IF b.vy <= 0 THEN [ball |-> b, collided |-> FALSE]
    ELSE after_legs(legs_pass(b, p), p)

\* Every root check_paddle_collision takes on (b, p) is exact: the distance to each
\* sub-shape it tests and touches is the root of a perfect square.  The model follows
\* the geometry tests on integer-valued balls only.
ExactLeg(b, rect) ==
    LET d2 == Len2(b.x - closest_x(b, rect), b.y - closest_y(b, rect))
    IN  d2 <= (b.radius * b.den) * (b.radius * b.den) => IsSquare(d2)

ExactCircle(b, p) ==
    LET d2 == Len2(b.x - circle_cx(p) * b.den, b.y - circle_cy * b.den)
    IN  d2 <= ((outer_r + b.radius) * b.den) * ((outer_r + b.radius) * b.den) => IsSquare(d2)

ExactPaddle(b, p) ==
    b.vy > 0 =>
        /\ b.den = 1
        /\ ExactLeg(b, left_rect(p))
        /\ ExactLeg(b, right_rect(p))
        /\ ExactCircle(b, p)


----------------------------------------------------------------------------
(* The brick wall: src/src/game/game_logic.py 152-173 (_create_bricks) *)

NBricks == ROWS * COLS
Bricks == 0 .. (NBricks - 1)
\* x_offset = (WINDOW_WIDTH - total_width) // 2, y_offset = 60
x_offset == (WINDOW_WIDTH - (COLS * BRICK_WIDTH + (COLS - 1) * BRICK_GAP)) \div 2
y_offset == 60
\* the list is filled row by row: index = r * COLS + c
BrickRow(i) == i \div COLS
BrickCol(i) == i % COLS
BrickX(i) == x_offset + BrickCol(i) * (BRICK_WIDTH + BRICK_GAP)
BrickY(i) == y_offset + BrickRow(i) * (BRICK_HEIGHT + BRICK_GAP)
\* pygame.Rect(brick.x, brick.y, brick.width, brick.height) of every brick of the list
BrickRects == [i \in Bricks |-> Rect(BrickX(i), BrickY(i), BRICK_WIDTH, BRICK_HEIGHT)]
BrickRect(i) == BrickRects[i]

NoneHit == [i \in Bricks |-> FALSE]

----------------------------------------------------------------------------
(* check_brick_collision: src/src/game/physics.py 363-379 *)

\* the bricks the loop would accept: not hit, rectangle colliding with ball.rect()
Touching(b, h) == {i \in Bricks : ~h[i] /\ CollideRect(BallRect(b), BrickRect(i))}

SetMin(S) == CHOOSE i \in S : \A j \in S : i <= j
SetMax(S) == CHOOSE i \in S : \A j \in S : i >= j

\* abs((brick.x + brick.width / 2) - ball.x) > abs((brick.y + brick.height / 2) - ball.y),
\* both sides doubled and brought over b.den
FlipsVx(b, i) ==
    Abs((2 * BrickX(i) + BRICK_WIDTH) * b.den - 2 * b.x)
        > Abs((2 * BrickY(i) + BRICK_HEIGHT) * b.den - 2 * b.y)

\* the scan returning the last colliding brick instead of the first
check_brick_collision_last(b, h) ==
    LET T == Touching(b, h)
    IN  IF T = {} THEN [ball |-> b, brick |-> -1]
        ELSE LET i == SetMax(T)
             IN  [ball |-> IF FlipsVx(b, i) THEN [b EXCEPT !.vx = -b.vx]
                                            ELSE [b EXCEPT !.vy = -b.vy],
                  brick |-> i]

\* the scan with a tie between the two distances flipping vx
check_brick_collision_tie(b, h) ==
    LET T == Touching(b, h)
    IN  IF T = {} THEN [ball |-> b, brick |-> -1]
        ELSE LET i == SetMin(T)
                 tie == Abs((2 * BrickX(i) + BRICK_WIDTH) * b.den - 2 * b.x)
                            = Abs((2 * BrickY(i) + BRICK_HEIGHT) * b.den - 2 * b.y)
             IN  [ball |-> IF FlipsVx(b, i) \/ tie THEN [b EXCEPT !.vx = -b.vx]
                                                   ELSE [b EXCEPT !.vy = -b.vy],
                  brick |-> i]

\* the for loop from brick i on, r being ball.rect(): the index of the brick the loop
\* returns at, -1 when it runs to its end
RECURSIVE scan_bricks(_, _, _)
scan_bricks(r, h, i) ==
    IF i >= NBricks THEN -1
    ELSE IF ~h[i] /\ CollideRect(r, BrickRect(i)) THEN i
    ELSE scan_bricks(r, h, i + 1)

\* brick is the index of the brick returned, -1 for None
check_brick_collision(b, h) ==
    LET i == scan_bricks(BallRect(b), h, 0)
    IN  IF i = -1 THEN [ball |-> b, brick |-> -1]
        ELSE [ball |-> IF FlipsVx(b, i) THEN [b EXCEPT !.vx = -b.vx]
                                        ELSE [b EXCEPT !.vy = -b.vy],
              brick |-> i]

----------------------------------------------------------------------------
(* aim_ball_at_brick: src/src/game/physics.py 197-260, called with speed=None *)

\* twice the vector from the ball to brick i's centre, as numerators over b.den
ToBrickX2(b, i) == (2 * BrickX(i) + BRICK_WIDTH) * b.den - 2 * b.x
ToBrickY2(b, i) == (2 * BrickY(i) + BRICK_HEIGHT) * b.den - 2 * b.y

\* candidates: the bricks not hit, narrowed to those whose centre is above prefer_above_y
\* when there is one
AimCandidates(h, above_y) ==
    LET cand == {i \in Bricks : ~h[i]}
        above == {i \in cand : 2 * BrickY(i) + BRICK_HEIGHT < 2 * above_y}
    IN  IF above # {} THEN above ELSE cand

\* the squared distance from the ball's centre to brick i's centre, times 4 * b.den^2
AimDist2(b, i) == Len2(ToBrickX2(b, i), ToBrickY2(b, i))

\* "for br in candidates: if d < best_dist: best = br": the scan of the candidates from
\* index i on, best being the nearest so far (-1 for None)
RECURSIVE nearest_from(_, _, _, _)
nearest_from(b, C, i, best) ==
    IF i >= NBricks THEN best
    ELSE IF i \in C /\ (best = -1 \/ AimDist2(b, i) < AimDist2(b, best))
         THEN nearest_from(b, C, i + 1, i)
         ELSE nearest_from(b, C, i + 1, best)

\* the first candidate, in list order, at the least distance from the ball's centre
AimTarget(b, h, above_y) == nearest_from(b, AimCandidates(h, above_y), 0, -1)

\* (dx, dy) doubled, after "if ty >= prefer_above_y: dy = min(dy, -abs(dy) - 1.0)"
AimDirTo(b, i, above_y) ==
    LET dy == ToBrickY2(b, i)
    IN  <<ToBrickX2(b, i),
          IF 2 * BrickY(i) + BRICK_HEIGHT >= 2 * above_y
          THEN Min(dy, -Abs(dy) - 2 * b.den) ELSE dy>>

AimDir(b, h, above_y) == AimDirTo(b, AimTarget(b, h, above_y), above_y)

\* cur_speed squared, over b.den^2: hypot(vx, vy)^2, or 6.0^2 when hypot <= 0.001
AimSpeed2(b) ==
    LET v2 == Sq(b.vx) + Sq(b.vy)
    IN  IF v2 * 1000000 <= b.den * b.den THEN 36 * b.den * b.den ELSE v2

\* The new velocity is d * (cur_speed / mag): rational exactly when speed^2 * mag^2 is
\* a perfect square.  The model follows the call on integer-valued balls only.
ExactAim(b, h, above_y) ==
    LET exact(d) ==
            \/ Len2(d[1], d[2]) = 0
            \/ /\ d[1] % 2 = 0 /\ d[2] % 2 = 0
               /\ IsSquare(AimSpeed2(b) * Len2(d[1] \div 2, d[2] \div 2))
    IN  \/ \A i \in Bricks : h[i]
        \/ b.den = 1 /\ exact(AimDir(b, h, above_y))

aim_ball_at_brick(b, h, above_y) ==
    LET scaled(dx, dy, m2, root) ==          \* root = cur_speed * mag
            [ball |-> Normalize([b EXCEPT !.x = b.x * m2, !.y = b.y * m2,
                                          !.vx = dx * root, !.vy = dy * root,
                                          !.den = b.den * m2]),
             aimed |-> TRUE]
        towards(dx, dy) ==
            IF Len2(dx, dy) = 0 THEN [ball |-> b, aimed |-> FALSE]
            ELSE scaled(dx, dy, Len2(dx, dy), ISqrt(AimSpeed2(b) * Len2(dx, dy)))
        aimed_at(d) == towards(d[1] \div 2, d[2] \div 2)
    IN  IF \A i \in Bricks : h[i] THEN [ball |-> b, aimed |-> FALSE]
        ELSE aimed_at(AimDir(b, h, above_y))

----------------------------------------------------------------------------
(* The game: src/src/game/game_logic.py *)

BALL_BOOST_MULTIPLIER == 5
\* PADDLE_MAX_STEP = 18.0
PADDLE_MAX_STEP == 18
\* PADDLE_LERP = 0.28, as PADDLE_LERP_NUM / 100
PADDLE_LERP_NUM == 28

\* paddle_pos_x is a float; the model keeps it as a numerator over PosDen, which holds
\* two successive interpolation steps from an integer position exactly
PosDen == 25 * 25

\* a velocity pair in lowest terms
NormV(v) ==
    LET g == Gcd(Gcd(v.vx, v.vy), v.den)
    IN  IF g <= 1 THEN v
        ELSE [vx |-> v.vx \div g, vy |-> v.vy \div g, den |-> v.den \div g]

Velocity(b) == NormV([vx |-> b.vx, vy |-> b.vy, den |-> b.den])
\* (ball.vx / BALL_BOOST_MULTIPLIER, ball.vy / BALL_BOOST_MULTIPLIER)
Unboosted(b) == NormV([vx |-> b.vx, vy |-> b.vy, den |-> b.den * BALL_BOOST_MULTIPLIER])
ZeroV == [vx |-> 0, vy |-> 0, den |-> 1]

\* the ball with velocity v, brought to a common denominator
WithVelocity(b, v) ==
    Normalize([b EXCEPT !.x = b.x * v.den, !.y = b.y * v.den,
                        !.vx = v.vx * b.den, !.vy = v.vy * b.den,
                        !.den = b.den * v.den])

\* where update_ball and the ball-lost branch put an attached ball
\* the attached ball put on the paddle with its velocity kept
AttachedBall_moving(b, p) ==
    [b EXCEPT !.x = p + Paddle.width \div 2, !.y = Paddle.y - b.radius, !.den = 1]

AttachedBall(b, p) ==
    [b EXCEPT !.x = p + Paddle.width \div 2, !.y = Paddle.y - b.radius,
              !.vx = 0, !.vy = 0, !.den = 1]

\* the neighbours taken by list index, without the bound on the column
Neighbourhood_wrap(idx) ==
    {idx + dr * COLS + dc : dr \in {-1, 0, 1}, dc \in {-1, 0, 1}} \cap Bricks

\* _handle_special_brick's 3x3 clear around list index idx (lines 412-426): the
\* indices nidx it visits
Neighbourhood(idx) ==
    LET r == idx \div COLS
        c == idx % COLS
    IN  {nr * COLS + nc : nr \in {r + dr : dr \in {-1, 0, 1}} \cap (0 .. ROWS - 1),
                          nc \in {c + dc : dc \in {-1, 0, 1}} \cap (0 .. COLS - 1)}

\* the 3x3 clear flipping the flags of the window instead of setting them
handle_special_brick_flip(st, idx, t) ==
    [st EXCEPT !.scale = 2,
               !.end_time = t + 1000,
               !.hit = [i \in Bricks |-> st.hit[i] # (i \in Neighbourhood(idx))]]

\* _handle_special_brick (lines 403-431): the scale boost and the 3x3 clear
handle_special_brick(st, idx, t) ==
    [st EXCEPT !.scale = 2,
               !.end_time = t + 1000,
               !.hit = [i \in Bricks |-> st.hit[i] \/ i \in Neighbourhood(idx)]]

\* reset_bricks (lines 200-211); sample is what random.sample draws in
\* _assign_special_bricks once every brick is available again
\* the n lowest elements of a set of bricks
RECURSIVE Lowest(_, _)
Lowest(S, n) ==
    IF n <= 0 \/ S = {} THEN {}
    ELSE LET m == CHOOSE i \in S : \A j \in S : i <= j
         IN  {m} \cup Lowest(S \ {m}, n - 1)

\* _assign_special_bricks (lines 175-188) on destroyed flags h: every flag is cleared,
\* then min(count, len(available)) of the bricks not destroyed are flagged.  The draw
\* of random.sample is given by sample: its bricks that are available, made up to the
\* count by the lowest other available ones.
assign_special_bricks(h, count, sample) ==
    LET available == {i \in Bricks : ~h[i]}
        n == Min(count, Cardinality(available))
        drawn == Lowest(sample \cap available, n)
        chosen == drawn \cup Lowest(available \ drawn, n - Cardinality(drawn))
    IN  [i \in Bricks |-> i \in chosen]

\* the special bricks assigned before the destroyed flags are cleared
reset_bricks_assign_first(st, sample) ==
    [st EXCEPT !.hit = NoneHit,
               !.special = assign_special_bricks(st.hit, SPECIAL_COUNT, sample),
               !.attached = TRUE,
               !.didReset = TRUE]

reset_bricks(st, sample) ==
    [st EXCEPT !.hit = NoneHit,
               !.special = assign_special_bricks(NoneHit, SPECIAL_COUNT, sample),
               !.attached = TRUE,
               !.didReset = TRUE]

\* the saved velocity after a collision while boosting (lines 337-339, 365-367, 382-384)
saved_normal(st, b) == IF st.boost THEN Unboosted(b) ELSE st.normal

\* the frame going on to the bottom-edge test without the wall step
collide_walls_skipped(st) == [st EXCEPT !.walled = st.ball]

\* _handle_collisions, lines 335-339: the walls; walled notes the ball the bottom-edge
\* test is about to see
collide_walls(st) ==
    LET after(w) == IF w.collided
                    THEN [st EXCEPT !.ball = w.ball, !.walled = w.ball,
                                    !.normal = saved_normal(st, w.ball)]
                    ELSE [st EXCEPT !.ball = w.ball, !.walled = w.ball]
    IN  after(check_wall_collision(st.ball, WINDOW_WIDTH, WINDOW_HEIGHT))

\* the ball-lost branch leaving the boost as it was
collide_bottom_keep_boost(st, p, sample) ==
    LET b == st.ball
        q == b.den
    IN  IF b.y - b.radius * q > WINDOW_HEIGHT * q
        THEN IF st.auto
             THEN [st EXCEPT !.ball =
                      [b EXCEPT !.y = (WINDOW_HEIGHT - b.radius - 1) * q,
                                !.vy = IF b.vy # 0 THEN -Abs(b.vy) ELSE -5 * q]]
             ELSE [reset_bricks(st, sample) EXCEPT !.ball = AttachedBall(b, p)]
        ELSE st

\* _handle_collisions, lines 341-361: the ball below the bottom edge
collide_bottom(st, p, sample) ==
    LET b == st.ball
        q == b.den
    IN  IF b.y - b.radius * q > WINDOW_HEIGHT * q
        THEN IF st.auto
             THEN [st EXCEPT !.ball =
                      [b EXCEPT !.y = (WINDOW_HEIGHT - b.radius - 1) * q,
                                !.vy = IF b.vy # 0 THEN -Abs(b.vy) ELSE -5 * q,
                                !.x = IF b.x < b.radius * q THEN (b.radius + 2) * q
                                      ELSE IF b.x > (WINDOW_WIDTH - b.radius) * q
                                           THEN (WINDOW_WIDTH - b.radius - 2) * q
                                           ELSE b.x]]
             ELSE [reset_bricks(st, sample) EXCEPT
                      !.ball = AttachedBall(b, p),
                      !.boost = FALSE,
                      !.normal = ZeroV]
        ELSE st

\* _handle_collisions, lines 363-375: the paddle
collide_paddle(st, p) ==
    LET after(c) ==
            IF c.collided
            THEN [st EXCEPT !.normal = saved_normal(st, c.ball),
                            !.ball = IF st.auto
                                     THEN aim_ball_at_brick(c.ball, st.hit, Paddle.y).ball
                                     ELSE c.ball]
            ELSE st
    IN  after(check_paddle_collision(st.ball, p))

\* lines 379-401 with every brick the ball touches marked, not only the one returned
brick_hit_all(st, k, t) ==
    LET marked == [st EXCEPT !.ball = k.ball,
                             !.hit = [i \in Bricks |-> st.hit[i] \/ i \in Touching(st.ball, st.hit)],
                             !.normal = saved_normal(st, k.ball)]
    IN  IF st.special[k.brick] THEN handle_special_brick(marked, k.brick, t) ELSE marked

\* _handle_collisions, lines 379-401: "if hit_brick is not None", k being what
\* check_brick_collision made of st.ball
brick_hit(st, k, t) ==
    LET marked == [st EXCEPT !.ball = k.ball,
                             !.hit = [st.hit EXCEPT ![k.brick] = TRUE],
                             !.normal = saved_normal(st, k.ball)]
    IN  IF st.special[k.brick] THEN handle_special_brick(marked, k.brick, t) ELSE marked

\* _handle_collisions, lines 377-401: the bricks; t is pygame.time.get_ticks().
\* mid, midHit and brick note the ball and the flags the scan saw and what it returned.
collide_bricks(st, t) ==
    LET noted(k) == [st EXCEPT !.mid = st.ball, !.midHit = st.hit, !.brick = k.brick]
        after(k) == IF k.brick # -1 THEN brick_hit(noted(k), k, t) ELSE noted(k)
    IN  after(check_brick_collision(st.ball, st.hit))

\* every root the paddle step of _handle_collisions takes from st is exact
ExactPaddleStep(st, p) ==
    LET aimable(c) == c.collided => ExactAim(c.ball, st.hit, Paddle.y)
    IN  /\ ExactPaddle(st.ball, p)
        /\ st.auto => aimable(check_paddle_collision(st.ball, p))

\* every root _handle_collisions takes from st is exact
ExactCollisions(st, p, sample) ==
    ExactPaddleStep(collide_bottom(collide_walls(st), p, sample), p)

\* _handle_collisions (lines 333-401)
handle_collisions(st, p, sample, t) ==
    collide_bricks(collide_paddle(collide_bottom(collide_walls(st), p, sample), p), t)

----------------------------------------------------------------------------
(* The prediction routines: src/src/game/physics.py 10-194.  A call is run  *)
(* one pass of its inner loop at a time; sim holds the routine's locals.    *)

\* defaults of the keyword arguments of predict_landing_x_trajectory
max_bounces == 12
step == 6
max_iter == 3000
\* default of max_iter of predict_ball_landing_x
max_iter_landing == 2000

\* a returned value: None, or the int x
None == [some |-> FALSE, x |-> 0]
Some(x) == [some |-> TRUE, x |-> x]

\* The locals of a call: fn the routine; b the simulated x, y, vx, vy with r as its
\* radius; d the increments (dx, dy) of the running pass of the while loop; steps and
\* s the range and the position of the inner loop; it, bounces the counters; subs the
\* passes of the inner loop so far; v0 the velocity the call started with; the
\* arguments width, height, paddle.y, max_bounces, max_iter; running until the call
\* has returned result.  For predict_trajectory also: pts, collided, delay
\* (delay_s = num / den); filtering once the last loop (lines 582-589) runs, k the
\* points it has been through, cum the bounds [lo, hi] of CumScale * cum, out_pts.
Idle ==
    [fn |-> "none", b |-> Ball(0, 0, 0, 0, 0), d |-> [dx |-> 0, dy |-> 0, den |-> 1],
     steps |-> 0, s |-> 0, it |-> 0, bounces |-> 0, subs |-> 0,
     v0 |-> [vx |-> 0, vy |-> 0, den |-> 1],
     width |-> 0, height |-> 0, paddle_y |-> 0, max_bounces |-> 0, max_iter |-> 0,
     running |-> FALSE, result |-> None,
     pts |-> <<>>, collided |-> FALSE, delay |-> [num |-> 0, den |-> 1],
     filtering |-> FALSE, k |-> 0, cum |-> [lo |-> 0, hi |-> 0], out_pts |-> <<>>]

\* lines 122-137 (26-44): the copies x, y, vx, vy, r = int(radius * _powerup_scale),
\* the early return for a ball at rest, it = 0, bounces = 0
sim_start(fn, b, sc, w, h, py, mb, mi) ==
    [Idle EXCEPT !.fn = fn,
                 !.b = [b EXCEPT !.radius = b.radius * sc],
                 !.v0 = [vx |-> b.vx, vy |-> b.vy, den |-> b.den],
                 !.width = w, !.height = h, !.paddle_y = py,
                 !.max_bounces = mb, !.max_iter = mi,
                 !.running = ~(b.vx = 0 /\ b.vy = 0)]

\* steps taken as int(speed / step), the quotient rounded down
StepsOf_floor(b) == Max(1, ISqrt(Len2(b.vx, b.vy)) \div (step * b.den))

\* max(1, int(math.ceil(speed / step))), speed = hypot(vx, vy): the least k >= 1
\* with k * step >= speed
RECURSIVE steps_from(_, _)
steps_from(b, k) ==
    IF Sq(k * step * b.den) >= Len2(b.vx, b.vy) THEN k ELSE steps_from(b, k + 1)
StepsOf(b) == steps_from(b, 1)

\* the while condition of predict_landing_x_trajectory without its bounce budget
loop_guard_no_budget(m) == m.it < m.max_iter

\* the while condition of the routine
loop_guard(m) ==
    /\ m.it < m.max_iter
    /\ m.fn \in {"trajectory", "points"} => m.bounces <= m.max_bounces

\* lines 138-146 (45-52): the head of the while loop; the loop left, None is returned
loop_head(m) ==
    IF loop_guard(m)
    THEN [m EXCEPT !.it = m.it + 1,
                   !.steps = StepsOf(m.b),
                   !.s = 0,
                   !.d = [dx |-> m.b.vx, dy |-> m.b.vy, den |-> m.b.den * StepsOf(m.b)]]
    ELSE [m EXCEPT !.running = FALSE, !.result = None]

\* x += dx; y += dy
Advance(b, d) ==
    Normalize([b EXCEPT !.x = b.x * d.den + d.dx * b.den,
                        !.y = b.y * d.den + d.dy * b.den,
                        !.vx = b.vx * d.den,
                        !.vy = b.vy * d.den,
                        !.den = b.den * d.den])

\* abs(cx - x) > abs(cy - y) for rect.centerx, rect.centery of brick i
SimFlipsVx(b, i) ==
    Abs((BrickX(i) + BRICK_WIDTH \div 2) * b.den - b.x)
        > Abs((BrickY(i) + BRICK_HEIGHT \div 2) * b.den - b.y)

\* one pass of the inner loop without the test of the right wall
sub_step_no_right_wall(m, h) ==
    LET n == [m EXCEPT !.s = m.s + 1, !.subs = m.subs + 1]
        at(b) ==
            LET r == b.radius
                q == b.den
                bounced(nb) == [n EXCEPT !.b = nb, !.bounces = m.bounces + 1]
                bricks(i) ==
                    IF i # -1
                    THEN bounced(IF SimFlipsVx(b, i) THEN [b EXCEPT !.vx = -b.vx]
                                                     ELSE [b EXCEPT !.vy = -b.vy])
                    ELSE IF b.y - r * q > m.height * q
                    THEN [n EXCEPT !.b = b, !.running = FALSE, !.result = None]
                    ELSE [n EXCEPT !.b = b]
            IN  IF WallLeft(b)
                THEN bounced([b EXCEPT !.x = r * q, !.vx = -b.vx])
                ELSE IF WallTop(b)
                THEN bounced([b EXCEPT !.y = r * q, !.vy = -b.vy])
                ELSE IF b.vy > 0 /\ b.y + r * q >= m.paddle_y * q
                THEN [n EXCEPT !.b = b, !.running = FALSE, !.result = Some(Trunc(b.x, q))]
                ELSE bricks(scan_bricks(BallRect(b), h, 0))
    IN  at(Advance(m.b, m.d))

\* one pass of the inner loop with the top wall turning vx instead of vy
sub_step_top_flips_vx(m, h) ==
    LET n == [m EXCEPT !.s = m.s + 1, !.subs = m.subs + 1]
        at(b) ==
            LET r == b.radius
                q == b.den
                bounced(nb) == [n EXCEPT !.b = nb, !.bounces = m.bounces + 1]
                bricks(i) ==
                    IF i # -1
                    THEN bounced(IF SimFlipsVx(b, i) THEN [b EXCEPT !.vx = -b.vx]
                                                     ELSE [b EXCEPT !.vy = -b.vy])
                    ELSE IF b.y - r * q > m.height * q
                    THEN [n EXCEPT !.b = b, !.running = FALSE, !.result = None]
                    ELSE [n EXCEPT !.b = b]
            IN  IF WallLeft(b)
                THEN bounced([b EXCEPT !.x = r * q, !.vx = -b.vx])
                ELSE IF WallRight(b, m.width)
                THEN bounced([b EXCEPT !.x = (m.width - r) * q, !.vx = -b.vx])
                ELSE IF WallTop(b)
                THEN bounced([b EXCEPT !.y = r * q, !.vx = -b.vx])
                ELSE IF b.vy > 0 /\ b.y + r * q >= m.paddle_y * q
                THEN [n EXCEPT !.b = b, !.running = FALSE, !.result = Some(Trunc(b.x, q))]
                ELSE bricks(scan_bricks(BallRect(b), h, 0))
    IN  at(Advance(m.b, m.d))

\* lines 148-192 (54-101): one pass of the inner loop, h being Brick.hit of the
\* bricks when the call was made
sub_step(m, h) ==
    LET n == [m EXCEPT !.s = m.s + 1, !.subs = m.subs + 1]
        at(b) ==
            LET r == b.radius
                q == b.den
                bounced(nb) == [n EXCEPT !.b = nb, !.bounces = m.bounces + 1]
                bricks(i) ==
                    IF i # -1
                    THEN bounced(IF SimFlipsVx(b, i) THEN [b EXCEPT !.vx = -b.vx]
                                                     ELSE [b EXCEPT !.vy = -b.vy])
                    ELSE IF b.y - r * q > m.height * q
                    THEN [n EXCEPT !.b = b, !.running = FALSE, !.result = None]
                    ELSE [n EXCEPT !.b = b]
            IN  IF WallLeft(b)
                THEN bounced([b EXCEPT !.x = r * q, !.vx = -b.vx])
                ELSE IF WallRight(b, m.width)
                THEN bounced([b EXCEPT !.x = (m.width - r) * q, !.vx = -b.vx])
                ELSE IF WallTop(b)
                THEN bounced([b EXCEPT !.y = r * q, !.vy = -b.vy])
                ELSE IF b.vy > 0 /\ b.y + r * q >= m.paddle_y * q
                THEN [n EXCEPT !.b = b, !.running = FALSE, !.result = Some(Trunc(b.x, q))]
                ELSE bricks(scan_bricks(BallRect(b), h, 0))
    IN  at(Advance(m.b, m.d))

\* the call taken one pass of the inner loop further: through the head of the while
\* loop when the inner loop has run out
sim_step(m, h) ==
    LET then(n) == IF n.running THEN sub_step(n, h) ELSE n
    IN  IF m.s = m.steps THEN then(loop_head(m)) ELSE sub_step(m, h)

----------------------------------------------------------------------------
(* predict_trajectory: src/src/game/physics.py 382-591 *)

\* max_iter of predict_trajectory (line 424)
max_iter_points == 2000
\* max_bounces as render passes it (game_logic.py 488)
max_bounces_render == 8

\* lines 402-425: the copies, the early return of the empty list, the start point
points_start(b, sc, w, h, py, mb, delay) ==
    [sim_start("points", b, sc, w, h, py, mb, max_iter_points) EXCEPT
        !.pts = IF b.vx = 0 /\ b.vy = 0 THEN <<>>
                ELSE << <<Trunc(b.x, b.den), Trunc(b.y, b.den)>> >>,
        !.delay = delay]

\* lines 425-435 and 569-573: the head of the while loop; the loop left, the filter
\* of lines 575-591 starts at pts[1:]
points_head(m) ==
    IF loop_guard(m)
    THEN [loop_head(m) EXCEPT !.collided = FALSE]
    ELSE [m EXCEPT !.filtering = TRUE, !.k = 1]

\* every root the paddle block of lines 471-541 takes on b is exact
SimExactPaddle(b, p) ==
    b.vy > 0 =>
        /\ ExactLeg(b, left_rect(p))
        /\ ExactLeg(b, right_rect(p))
        /\ ExactCircle(b, p)

\* lines 471-541: the copy of check_paddle_collision's body that acts on the locals;
\* the semicircle is tested only while collided is still False
sim_paddle(b, p, collided) ==
    LET legs(l) ==
            IF l.touch THEN [ball |-> l.ball, collided |-> TRUE]
            ELSE IF collided THEN [ball |-> b, collided |-> FALSE]
            ELSE LET circle(c) == [ball |-> c.ball, collided |-> c.touch]
                 IN  circle(circle_test(b, p))
    IN  IF b.vy > 0 THEN legs(legs_pass(b, p)) ELSE [ball |-> b, collided |-> FALSE]

\* lines 436-567: one pass of the inner loop; a break leaves the loop (s = steps).
\* exact: every root the pass took was exact.
points_sub_step(m, h, p) ==
    LET at(b) ==
            LET r == b.radius
                q == b.den
                n == [m EXCEPT !.s = m.s + 1, !.subs = m.subs + 1,
                               !.pts = Append(m.pts, <<Trunc(b.x, q), Trunc(b.y, q)>>)]
                broke(nb) == [n EXCEPT !.b = nb, !.bounces = m.bounces + 1,
                                       !.collided = TRUE, !.s = m.steps]
                bottom(o) ==
                    IF o.b.y - r * o.b.den > m.height * o.b.den
                    THEN [o EXCEPT !.collided = TRUE, !.s = m.steps]
                    ELSE o
                bricks(i) ==
                    IF i # -1
                    THEN broke(IF SimFlipsVx(b, i) THEN [b EXCEPT !.vx = -b.vx]
                                                   ELSE [b EXCEPT !.vy = -b.vy])
                    ELSE bottom([n EXCEPT !.b = b])
                paddled(c) ==
                    IF c.collided
                    THEN bottom([n EXCEPT !.b = c.ball, !.bounces = m.bounces + 1,
                                          !.collided = TRUE])
                    ELSE IF m.collided THEN bottom([n EXCEPT !.b = b])
                    ELSE bricks(scan_bricks(BallRect(b), h, 0))
            IN  IF WallLeft(b)
                THEN [m |-> broke([b EXCEPT !.x = r * q, !.vx = -b.vx]), exact |-> TRUE]
                ELSE IF WallRight(b, m.width)
                THEN [m |-> broke([b EXCEPT !.x = (m.width - r) * q, !.vx = -b.vx]),
                      exact |-> TRUE]
                ELSE IF WallTop(b)
                THEN [m |-> broke([b EXCEPT !.y = r * q, !.vy = -b.vy]), exact |-> TRUE]
                ELSE IF SimExactPaddle(b, p)
                THEN [m |-> paddled(sim_paddle(b, p, m.collided)), exact |-> TRUE]
                ELSE [m |-> m, exact |-> FALSE]
    IN  at(Advance(m.b, m.d))

\* the call taken one pass of the inner loop further
points_step(m, h, p) ==
    LET then(n) == IF n.filtering THEN [m |-> n, exact |-> TRUE]
                   ELSE points_sub_step(n, h, p)
    IN  IF m.s = m.steps THEN then(points_head(m)) ELSE points_sub_step(m, h, p)

\* Lengths are kept in units of 1 / CumScale, between the integer bounds of a root
CumScale == 100
RootLo(n) == ISqrt(n)
RootHi(n) == IF IsSquare(n) THEN ISqrt(n) ELSE ISqrt(n) + 1

\* seg = math.hypot(cur[0] - prev[0], cur[1] - prev[1]), times CumScale
SegLo(prev, cur) == RootLo(Len2(cur[1] - prev[1], cur[2] - prev[2]) * Sq(CumScale))
SegHi(prev, cur) == RootHi(Len2(cur[1] - prev[1], cur[2] - prev[2]) * Sq(CumScale))

\* speed0 = math.hypot(ball.vx, ball.vy) times CumScale times the denominator of v
Speed0Lo(v) == RootLo(Len2(v.vx, v.vy) * Sq(CumScale))
Speed0Hi(v) == RootHi(Len2(v.vx, v.vy) * Sq(CumScale))

\* cum >= dist_threshold, dist_threshold = speed0 * delay_s, for cum within c:
\* certainly so, or certainly not
Reached(c, v, delay) == c.lo * delay.den * v.den >= delay.num * Speed0Hi(v)
NotReached(c, v, delay) == c.hi * delay.den * v.den < delay.num * Speed0Lo(v)

\* the last loop keeping a point only when cum > dist_threshold
filter_step_strict(m) ==
    IF m.k >= Len(m.pts)
    THEN [m |-> [m EXCEPT !.running = FALSE, !.filtering = FALSE], exact |-> TRUE]
    ELSE LET with(c) ==
                 [m |-> [m EXCEPT !.k = m.k + 1,
                                  !.cum = c,
                                  !.out_pts = IF c.lo * m.delay.den * m.v0.den
                                                     > m.delay.num * Speed0Hi(m.v0)
                                              THEN Append(m.out_pts, m.pts[m.k + 1])
                                              ELSE m.out_pts],
                  exact |-> Reached(c, m.v0, m.delay) \/ NotReached(c, m.v0, m.delay)]
         IN  with([lo |-> m.cum.lo + SegLo(m.pts[m.k], m.pts[m.k + 1]),
                   hi |-> m.cum.hi + SegHi(m.pts[m.k], m.pts[m.k + 1])])

\* lines 582-591: one pass of the last loop, on p = pts[k + 1]; past the last point
\* out_pts is returned.  exact: the comparison with the threshold is decided.
filter_step(m) ==
    IF m.k >= Len(m.pts)
    THEN [m |-> [m EXCEPT !.running = FALSE, !.filtering = FALSE], exact |-> TRUE]
    ELSE LET with(c) ==
                 [m |-> [m EXCEPT !.k = m.k + 1,
                                  !.cum = c,
                                  !.out_pts = IF Reached(c, m.v0, m.delay)
                                              THEN Append(m.out_pts, m.pts[m.k + 1])
                                              ELSE m.out_pts],
                  exact |-> Reached(c, m.v0, m.delay) \/ NotReached(c, m.v0, m.delay)]
         IN  with([lo |-> m.cum.lo + SegLo(m.pts[m.k], m.pts[m.k + 1]),
                   hi |-> m.cum.hi + SegHi(m.pts[m.k], m.pts[m.k + 1])])

----------------------------------------------------------------------------
(* One frame of BrickBreakerGame.run: update_paddle, update_ball, render *)

\* the program's state as one record, with what the frame notes on its way
State ==
    [ball |-> ball, hit |-> hit, special |-> special, attached |-> attached,
     auto |-> auto, boost |-> boost, normal |-> normal, scale |-> scale,
     end_time |-> end_time,
     mid |-> ball, midHit |-> hit, walled |-> ball, brick |-> -1, didReset |-> FALSE]

\* update_paddle, lines 260-278: the clamped target; landing is what
\* predict_landing_x_trajectory returned (-1 for None)
paddle_target(mouse_x, landing, st) ==
    LET t0 == Trunc(2 * mouse_x - Paddle.width, 2)
        t1 == IF st.auto /\ ~st.attached /\ landing # -1
              THEN Trunc(2 * landing - Paddle.width, 2) ELSE t0
    IN  Max(0, Min(t1, WINDOW_WIDTH - Paddle.width))

\* update_paddle, lines 280-292: the smoothed position, a numerator over PosDen
\* the interpolation step is exact when diff * 0.28 is a multiple of 1 / PosDen
LerpExact(pos, target) ==
    LET diff == target * PosDen - pos
    IN  Abs(diff) > PADDLE_MAX_STEP * PosDen \/ (diff * PADDLE_LERP_NUM) % 100 = 0

\* the interpolation factor applied to every move, the step limit left out
paddle_step_unlimited(pos, target) ==
    LET diff == target * PosDen - pos
        moved == pos + diff
    IN  Max(0, Min(moved, (WINDOW_WIDTH - Paddle.width) * PosDen))

paddle_step(pos, target) ==
    LET diff == target * PosDen - pos
        moved == IF Abs(diff) > PADDLE_MAX_STEP * PosDen
                 THEN IF diff > 0 THEN pos + PADDLE_MAX_STEP * PosDen
                                  ELSE pos - PADDLE_MAX_STEP * PosDen
                 ELSE pos + (diff * PADDLE_LERP_NUM) \div 100
    IN  Max(0, Min(moved, (WINDOW_WIDTH - Paddle.width) * PosDen))

\* the expired power-up cleared to 0 instead of 1.0
update_powerups_zero(st, t) ==
    IF st.end_time # 0 /\ t >= st.end_time
    THEN [st EXCEPT !.scale = 0, !.end_time = 0]
    ELSE st

\* Ball.update_powerups (entities.py 331-343)
update_powerups(st, t) ==
    IF st.end_time # 0 /\ t >= st.end_time
    THEN [st EXCEPT !.scale = 1, !.end_time = 0]
    ELSE st

\* update_ball, lines 307-321: the boost key
apply_boost(st, key) ==
    IF key /\ ~st.boost
    THEN [st EXCEPT !.boost = TRUE,
                    !.normal = Velocity(st.ball),
                    !.ball = [st.ball EXCEPT !.vx = st.ball.vx * BALL_BOOST_MULTIPLIER,
                                             !.vy = st.ball.vy * BALL_BOOST_MULTIPLIER]]
    ELSE IF ~key /\ st.boost
    THEN [st EXCEPT !.boost = FALSE, !.ball = WithVelocity(st.ball, st.normal)]
    ELSE st

\* update_ball, lines 323-325
integrate(st) ==
    [st EXCEPT !.ball = [st.ball EXCEPT !.x = st.ball.x + st.ball.vx,
                                        !.y = st.ball.y + st.ball.vy]]

\* the state update_ball hands to _handle_collisions
before_collisions(st, key, t) == update_powerups(integrate(apply_boost(st, key)), t)

\* update_ball (lines 298-331)
update_ball(st, p, key, t, sample) ==
    IF st.attached
    THEN [st EXCEPT !.ball = AttachedBall(st.ball, p)]
    ELSE handle_collisions(before_collisions(st, key, t), p, sample, t)

\* render, lines 461-465, with _render_game_over (502-506): once no brick remains the
\* ball is stopped
render(st) ==
    IF \A i \in Bricks : st.hit[i]
    THEN [st EXCEPT !.ball = [st.ball EXCEPT !.vx = 0, !.vy = 0]]
    ELSE st

\* One frame on state s0 with paddle_pos_x = pos0: update_paddle, update_ball and
\* render in turn.  exact says that every root and every interpolation the frame
\* takes is exact; the model follows the frame only then.
frame_result(s0, pos0, mouse_x, key, t, landing, sample) ==
    LET moved(target) ==
            LET stepped(pos, p) ==
                    LET done(st) == [st EXCEPT !.ball = Normalize(st.ball)]
                                        @@ [exact |-> TRUE, pos |-> pos, p |-> p, target |-> target]
                    IN  IF s0.attached \/ ExactCollisions(before_collisions(s0, key, t), p, sample)
                        THEN done(render(update_ball(s0, p, key, t, sample)))
                        ELSE s0 @@ [exact |-> FALSE, pos |-> pos, p |-> p, target |-> target]
                at(pos) == stepped(pos, Trunc(pos, PosDen))
            IN  IF LerpExact(pos0, target)
                THEN at(paddle_step(pos0, target))
                ELSE s0 @@ [exact |-> FALSE, pos |-> pos0, p |-> Trunc(pos0, PosDen),
                            target |-> target]
    IN  moved(paddle_target(mouse_x, landing, s0))

----------------------------------------------------------------------------
(* The game as a state machine *)

MaxFrames == 1
\* FPS = 60; clock.tick(FPS) lets a frame take 1000 / FPS ms
FPS == 60
TickMs == 1000 \div FPS
\* pointer positions: over the middle of the window and at its left edge
MouseXs == {WINDOW_WIDTH \div 2, 0}
\* what predict_landing_x_trajectory may hand update_paddle: None or an x
Landings == {-1, 700}
\* the samples random.sample may draw for the special bricks
SpecialSets == {{0, 9, 25, 40, 49}, {4, 19, 20, 33, 45}}
\* a frame takes TickMs, or stalls for a second
Ticks == {TickMs, 1000}

StartPaddleX == (WINDOW_WIDTH - PADDLE_WIDTH) \div 2

\* _init_game_state and _init_game_objects: the state after construction
Constructed ==
    /\ ball = Ball(StartPaddleX + PADDLE_WIDTH \div 2, Paddle.y - BALL_RADIUS, BALL_RADIUS, 0, 0)
    /\ hit = NoneHit
    /\ \E S \in SpecialSets : special = [i \in Bricks |-> i \in S]
    /\ attached = TRUE
    /\ auto = FALSE
    /\ boost = FALSE
    /\ normal = ZeroV

\* Rounds in progress: the ball in flight at an integer position with the velocity a
\* launch gives it, up to the sign changes of wall and brick bounces, unboosted
\* or boosted; some bricks already destroyed.
ScenePositions ==
    { <<112, 230>>, <<148, 230>>, <<688, 230>>, <<723, 230>>, <<117, 40>>, <<400, 100>>,
      <<395, 545>>, <<355, 515>>, <<200, 630>>, <<40, 40>>, <<765, 300>>, <<368, 230>> }
SceneVelocities == { <<5, -5>>, <<-5, -5>>, <<5, 5>>, <<-5, 5>> }
SceneHits ==
    { NoneHit,
      [i \in Bricks |-> i # 44],
      [i \in Bricks |-> i \in {30, 31, 41}] }

InFlight ==
    /\ \E pos \in ScenePositions, v \in SceneVelocities, b \in BOOLEAN :
          /\ boost = b
          /\ normal = [vx |-> v[1], vy |-> v[2], den |-> 1]
          /\ ball = Ball(pos[1], pos[2], BALL_RADIUS,
                         IF b THEN v[1] * BALL_BOOST_MULTIPLIER ELSE v[1],
                         IF b THEN v[2] * BALL_BOOST_MULTIPLIER ELSE v[2])
    /\ hit \in SceneHits
    /\ \E S \in SpecialSets : special = [i \in Bricks |-> i \in S]
    /\ attached = FALSE
    /\ auto \in BOOLEAN

\* A round in progress after the pointer was held at the left edge of the window: the
\* paddle has come down from StartPaddleX in steps of PADDLE_MAX_STEP and is within
\* one step of the left wall, a distance it covers by interpolation.  The ball comes
\* down on the paddle's left leg, on the rim of its semicircle, or goes into the
\* corner of the two walls above it.
EdgePaddleX == StartPaddleX % PADDLE_MAX_STEP
EdgePositions == { <<40, 529>>, <<50, 529>>, <<51, 542>>, <<61, 542>>, <<37, 37>> }

AtLeftEdge ==
    /\ \E pos \in EdgePositions, v \in SceneVelocities :
          /\ normal = [vx |-> v[1], vy |-> v[2], den |-> 1]
          /\ ball = Ball(pos[1], pos[2], BALL_RADIUS, v[1], v[2])
    /\ boost = FALSE
    /\ hit = NoneHit
    /\ \E S \in SpecialSets : special = [i \in Bricks |-> i \in S]
    /\ attached = FALSE
    /\ auto \in BOOLEAN

Init ==
    /\ \/ /\ Constructed \/ InFlight
          /\ paddle_pos = StartPaddleX * PosDen
          /\ px = StartPaddleX
       \/ /\ AtLeftEdge
          /\ paddle_pos = EdgePaddleX * PosDen
          /\ px = EdgePaddleX
    /\ scale = 1 /\ end_time = 0 /\ now = 0
    /\ op = "init" /\ ret = -1 /\ width = WINDOW_WIDTH
    /\ pre = ball /\ preHit = hit /\ mid = ball /\ midHit = hit /\ walled = ball
    /\ didReset = FALSE /\ sim = Idle /\ frames = 0 /\ landing_x = -1 /\ target_x = px

\* the ball _launch_ball (lines 245-256) sends off; dir is the sign random.random() picks
LaunchedBall(dir) == [ball EXCEPT !.vx = 5 * dir, !.vy = -5]

\* a launch request (right button or space, lines 219-220 and 238-239): _launch_ball
\* acts only "if self.ball_attached"
Launch ==
    /\ \E dir \in {1, -1} :
         IF attached
         THEN /\ auto => ExactAim(LaunchedBall(dir), hit, Paddle.y)
              /\ ball' = IF auto THEN aim_ball_at_brick(LaunchedBall(dir), hit, Paddle.y).ball
                                 ELSE LaunchedBall(dir)
              /\ normal' = [vx |-> 5 * dir, vy |-> -5, den |-> 1]
         ELSE UNCHANGED <<ball, normal>>
    /\ attached' = FALSE
    /\ op' = "launch" /\ pre' = ball /\ preHit' = hit /\ mid' = ball /\ midHit' = hit
    /\ walled' = ball /\ ret' = -1 /\ didReset' = FALSE
    /\ UNCHANGED <<hit, special, auto, boost, paddle_pos, scale, end_time, now, width, px,
                   sim, landing_x, target_x, frames>>

\* handle_events, lines 222-224: the left mouse button
ToggleAuto ==
    /\ auto' = ~auto
    /\ op' = "toggle" /\ pre' = ball /\ preHit' = hit /\ mid' = ball /\ midHit' = hit
    /\ walled' = ball /\ ret' = -1 /\ didReset' = FALSE
    /\ UNCHANGED <<ball, hit, special, attached, boost, normal, paddle_pos, scale, end_time,
                   now, width, px, sim, landing_x, target_x, frames>>

\* one pass of the loop of run() after handle_events (lines 519-536), while fewer
\* than n frames have run
FrameWithin(n) ==
    /\ frames < n
    /\ \E mouse_x \in MouseXs, dt \in Ticks, sample \in SpecialSets,
          key \in (IF attached THEN {FALSE} ELSE BOOLEAN),
          landing \in (IF auto /\ ~attached THEN Landings ELSE {-1}) :
         \E st \in {frame_result(State, paddle_pos, mouse_x, key, now + dt, landing, sample)} :
             /\ st.exact
             /\ now' = now + dt
             /\ paddle_pos' = st.pos
             /\ px' = st.p
             /\ ball' = st.ball
             /\ hit' = st.hit
             /\ special' = st.special
             /\ attached' = st.attached
             /\ boost' = st.boost
             /\ normal' = st.normal
             /\ scale' = st.scale
             /\ end_time' = st.end_time
             /\ mid' = st.mid
             /\ midHit' = st.midHit
             /\ walled' = st.walled
             /\ ret' = st.brick
             /\ didReset' = st.didReset
             /\ landing_x' = landing
             /\ target_x' = st.target
    /\ op' = "frame" /\ pre' = ball /\ preHit' = hit
    /\ frames' = frames + 1
    /\ UNCHANGED <<auto, width, sim>>

Frame == FrameWithin(MaxFrames)

Next == Launch \/ ToggleAuto \/ Frame

Spec == Init /\ [][Next]_vars

----------------------------------------------------------------------------
(* A round with the power-up running: a few frames in a row from a ball in  *)
(* flight that hit a special brick less than a second ago.                    *)

MaxRoundFrames == 2
\* the ball about to leave through the bottom edge, in the open, under the last brick
\* and under a special brick
PowerPositions == { <<200, 630>>, <<400, 300>>, <<368, 230>>, <<112, 230>> }
PowerVelocities == { <<5, 5>>, <<-5, -5>> }

PowerScene ==
    /\ \E pos \in PowerPositions, v \in PowerVelocities :
          /\ normal = [vx |-> v[1], vy |-> v[2], den |-> 1]
          /\ ball = Ball(pos[1], pos[2], BALL_RADIUS, v[1], v[2])
    /\ boost = FALSE
    /\ hit \in SceneHits \ {NoneHit}
    /\ \E S \in SpecialSets : special = [i \in Bricks |-> i \in S]
    /\ attached = FALSE
    /\ auto \in BOOLEAN
    \* apply_temporary_scale(2.0, 1000) was called 900 ms ago, at clock 0
    /\ scale = 2 /\ end_time = 1000 /\ now = 900

RoundInit ==
    /\ PowerScene
    /\ paddle_pos = StartPaddleX * PosDen
    /\ op = "init" /\ ret = -1 /\ width = WINDOW_WIDTH /\ px = StartPaddleX
    /\ pre = ball /\ preHit = hit /\ mid = ball /\ midHit = hit /\ walled = ball
    /\ didReset = FALSE /\ sim = Idle /\ frames = 0 /\ landing_x = -1 /\ target_x = px

RoundFrame == FrameWithin(MaxRoundFrames)

RoundNext == Launch \/ ToggleAuto \/ RoundFrame

RoundSpec == RoundInit /\ [][RoundNext]_vars

----------------------------------------------------------------------------
(* The physics calls on their own: every call is applied once to an input  *)
(* drawn from the sets below.                                              *)

\* window widths handed to check_wall_collision: the game's, and the narrowest
\* window a ball of radius BALL_RADIUS fits in
Widths == {WINDOW_WIDTH, 2 * BALL_RADIUS}
Radii == {DEFAULT_RADIUS, BALL_RADIUS}
CallPxs == {0, (WINDOW_WIDTH - PADDLE_WIDTH) \div 2}
Velocities ==
    { <<5, -5>>, <<-5, -5>>, <<5, 5>>, <<-5, 5>>, <<0, 5>>, <<0, -5>>, <<5, 0>>, <<0, 0>>,
      <<3, 4>>, <<-3, 4>>, <<7, 1>>, <<25, 25>>, <<-25, 25>> }

\* positions around the three walls and far below the bottom edge
WallXs == {-5, 0, 31, 32, 33, 400, 767, 768, 769, 900}
WallYs == {-10, 0, 31, 32, 33, 300, 633, 5000}
\* positions around the paddle, as offsets from (paddle_draw_x, paddle.y)
PadOffXs == {-32, -24, -20, -12, -7, 0, 7, 10, 19, 21, 22, 26, 30, 31, 35, 43, 51,
             54, 57, 65, 77, 78, 89, 98, 108, 115, 120, 132, 140}
PadOffYs == {-33, -32, -24, -18, -16, -15, -9, -7, -5, -4, 0, 10, 37, 49, 50, 81,
             100, 135, 140, 150, 167}

CallPositions(p) ==
    (WallXs \X WallYs)
        \cup {<<p + ox, Paddle.y + oy>> : ox \in PadOffXs, oy \in PadOffYs}

\* positions around the brick wall: at its corners, between two columns, between two
\* rows, and at equal horizontal and vertical distance from a brick's centre
BrickPosXs == {50, 51, 112, 144, 148, 152, 400, 688, 749, 750}
BrickPosYs == {27, 28, 40, 100, 184, 224, 227, 228}

InitProgDefaults ==
    /\ attached = FALSE
    /\ auto = FALSE
    /\ boost = FALSE
    /\ normal = [vx |-> 0, vy |-> 0, den |-> 1]
    /\ paddle_pos = 0
    /\ scale = 1
    /\ end_time = 0
    /\ now = 0

\* a call near the walls or the paddle, no brick destroyed
CallScene ==
    /\ hit = NoneHit
    /\ special = NoneHit
    /\ \E p \in CallPxs, w \in Widths, r \in Radii, v \in Velocities :
         \E pos \in CallPositions(p) :
            /\ px = p
            /\ width = w
            /\ ball = Ball(pos[1], pos[2], r, v[1], v[2])
            /\ ExactPaddle(ball, p)

\* a call near the brick wall, some bricks destroyed
CallBrickScene ==
    /\ hit \in SceneHits
    /\ \E S \in SpecialSets : special = [i \in Bricks |-> i \in S]
    /\ px = StartPaddleX
    /\ width = WINDOW_WIDTH
    /\ \E x \in BrickPosXs, y \in BrickPosYs, r \in Radii, v \in Velocities :
         ball = Ball(x, y, r, v[1], v[2])

CallInit ==
    /\ InitProgDefaults
    /\ CallScene \/ CallBrickScene
    /\ op = "init" /\ ret = FALSE
    /\ pre = ball /\ preHit = hit /\ mid = ball /\ midHit = hit /\ walled = ball
    /\ didReset = FALSE /\ sim = Idle /\ frames = 0 /\ landing_x = -1 /\ target_x = px

CallWall ==
    /\ op = "init"
    /\ LET res == check_wall_collision(ball, width, WINDOW_HEIGHT)
       IN  /\ ball' = res.ball
           /\ ret' = res.collided
    /\ op' = "wall"
    /\ UNCHANGED <<hit, special, attached, auto, boost, normal, paddle_pos, scale, end_time, now>>
    /\ UNCHANGED <<width, px, pre, preHit, mid, midHit, walled, didReset, sim, landing_x, target_x, frames>>

CallPaddle ==
    /\ op = "init"
    /\ LET res == check_paddle_collision(ball, px)
       IN  /\ ball' = res.ball
           /\ ret' = res.collided
    /\ op' = "paddle"
    /\ UNCHANGED <<hit, special, attached, auto, boost, normal, paddle_pos, scale, end_time, now>>
    /\ UNCHANGED <<width, px, pre, preHit, mid, midHit, walled, didReset, sim, landing_x, target_x, frames>>

\* the brick step of _handle_collisions (lines 377-401) on its own
CallBrick ==
    /\ op = "init"
    /\ \E st \in {collide_bricks(State, now)} :
         /\ ball' = st.ball
         /\ hit' = st.hit
         /\ normal' = st.normal
         /\ scale' = st.scale
         /\ end_time' = st.end_time
         /\ ret' = st.brick
    /\ op' = "brick"
    /\ UNCHANGED <<special, attached, auto, boost, paddle_pos, now>>
    /\ UNCHANGED <<width, px, pre, preHit, mid, midHit, walled, didReset, sim, landing_x, target_x, frames>>

CallNext == CallWall \/ CallPaddle \/ CallBrick

CallSpec == CallInit /\ [][CallNext]_vars


----------------------------------------------------------------------------
(* The prediction routines on their own: a call is started on a live state  *)
(* drawn from the scenes below and run to its return.                       *)

\* delay_s as render passes it (0.5), and a longer one
HalfSecond == [num |-> 1, den |-> 2]
TwoSeconds == [num |-> 2, den |-> 1]

\* the arguments of the call to come: width, height, paddle.y and delay_s
Args(w, h, py, delay) ==
    [Idle EXCEPT !.width = w, !.height = h, !.paddle_y = py, !.delay = delay]

\* the bricks of the two columns above the middle of the window destroyed
MiddleCleared == [i \in Bricks |-> BrickCol(i) \in {4, 5}]
\* every brick destroyed
AllHit == [i \in Bricks |-> TRUE]

\* balls of the default radius moving straight up, inside and outside the playfield,
\* over a paddle at y = 550
VerticalScene ==
    /\ \E pos \in {<<400, 300>>, <<5, 300>>, <<-50, 300>>, <<400, 700>>},
          v \in {<<0, -6>>, <<0, -3>>} :
          ball = Ball(pos[1], pos[2], DEFAULT_RADIUS, v[1], v[2])
    /\ hit \in {MiddleCleared, NoneHit}
    /\ scale = 1
    /\ sim = Args(WINDOW_WIDTH, WINDOW_HEIGHT, Paddle.y - 2, HalfSecond)

\* balls creeping straight up, a tenth of a pixel per frame: one in the open at
\* (400, 300), one held against the left wall at (10, 300.95)
SlowScene ==
    /\ ball \in {[Ball(4000, 3000, DEFAULT_RADIUS, 0, -1) EXCEPT !.den = 10],
                 [Ball(200, 6019, DEFAULT_RADIUS, 0, -2) EXCEPT !.den = 20]}
    /\ hit = MiddleCleared
    /\ scale = 1
    /\ sim = Args(WINDOW_WIDTH, WINDOW_HEIGHT, Paddle.y - 2, HalfSecond)

\* balls moving obliquely, plain and enlarged
ObliqueScene ==
    \E pos \in {<<12, 12>>, <<66, 300>>, <<400, 300>>, <<900, 300>>, <<400, -40>>},
       v \in {<<3, 4>>, <<-3, -4>>, <<5, -5>>}, sc \in {1, 2} :
       /\ ball = Ball(pos[1], pos[2], IF sc = 1 THEN DEFAULT_RADIUS ELSE BALL_RADIUS, v[1], v[2])
       /\ scale = sc
       /\ hit \in {NoneHit, [i \in Bricks |-> i # 44]}
       /\ sim = Args(WINDOW_WIDTH, WINDOW_HEIGHT, Paddle.y, HalfSecond)

\* a ball flying straight up the cleared columns at twice the stride
FastScene ==
    /\ ball = Ball(400, 300, DEFAULT_RADIUS, 0, -2 * step)
    /\ hit = MiddleCleared
    /\ scale = 1
    /\ sim = Args(WINDOW_WIDTH, WINDOW_HEIGHT, Paddle.y - 2, HalfSecond)

\* a boosted ball
BoostedScene ==
    /\ ball = Ball(400, 300, BALL_RADIUS, 5 * BALL_BOOST_MULTIPLIER, -5 * BALL_BOOST_MULTIPLIER)
    /\ hit = AllHit
    /\ scale = 1
    /\ sim = Args(WINDOW_WIDTH, WINDOW_HEIGHT, Paddle.y, HalfSecond)

\* balls moving along the brick-free part of the window, and a ball at rest
LevelScene ==
    /\ \E v \in {<<6, 0>>, <<1, 0>>, <<0, 0>>} : ball = Ball(400, 300, DEFAULT_RADIUS, v[1], v[2])
    /\ hit = NoneHit
    /\ scale = 1
    /\ sim \in {Args(WINDOW_WIDTH, WINDOW_HEIGHT, Paddle.y, d) : d \in {HalfSecond, TwoSeconds}}

PredictInit ==
    /\ VerticalScene \/ SlowScene \/ ObliqueScene \/ LevelScene \/ BoostedScene \/ FastScene
    /\ special = NoneHit
    /\ attached = FALSE
    /\ auto = TRUE
    /\ boost = FALSE
    /\ normal = Velocity(ball)
    /\ paddle_pos = StartPaddleX * PosDen
    /\ end_time = IF scale = 1 THEN 0 ELSE 1000
    /\ now = 0
    /\ op = "init" /\ ret = -1 /\ width = WINDOW_WIDTH /\ px = StartPaddleX
    /\ pre = ball /\ preHit = hit /\ mid = ball /\ midHit = hit /\ walled = ball
    /\ didReset = FALSE /\ frames = 0 /\ landing_x = -1 /\ target_x = px

\* predict_ball_landing_x(ball, bricks, width, height, paddle, px) is entered
CallLanding ==
    /\ op = "init"
    /\ sim' = sim_start("landing", ball, scale, sim.width, sim.height, sim.paddle_y,
                        max_bounces, max_iter_landing)
    /\ op' = "call"
    /\ UNCHANGED <<prog, ret, width, px, pre, preHit, mid, midHit, walled, didReset, landing_x, target_x, frames>>

\* predict_landing_x_trajectory(ball, bricks, width, height, paddle, px) is entered
CallTrajectory ==
    /\ op = "init"
    /\ sim' = sim_start("trajectory", ball, scale, sim.width, sim.height, sim.paddle_y,
                        max_bounces, max_iter)
    /\ op' = "call"
    /\ UNCHANGED <<prog, ret, width, px, pre, preHit, mid, midHit, walled, didReset, landing_x, target_x, frames>>

\* predict_trajectory(ball, bricks, width, height, paddle, px, max_bounces=8, step=6,
\* delay_s) is entered; its paddle is the game's
CallPoints ==
    /\ op = "init"
    /\ sim' = points_start(ball, scale, sim.width, sim.height, Paddle.y,
                           max_bounces_render, sim.delay)
    /\ op' = "call"
    /\ UNCHANGED <<prog, ret, width, px, pre, preHit, mid, midHit, walled, didReset, landing_x, target_x, frames>>

\* a pass of the inner loop that stores its x, y, vx, vy in the live ball
PredictStep_write_back ==
    /\ sim.running
    /\ sim.fn \in {"landing", "trajectory"}
    /\ sim' = sim_step(sim, hit)
    /\ ball' = [sim'.b EXCEPT !.radius = ball.radius]
    /\ op' = "step"
    /\ UNCHANGED <<hit, special, attached, auto, boost, normal, paddle_pos, scale, end_time, now>>
    /\ UNCHANGED <<ret, width, px, pre, preHit, mid, midHit, walled, didReset, landing_x, target_x, frames>>

\* the running call of a landing routine goes through one pass of its inner loop
PredictStep ==
    /\ sim.running
    /\ sim.fn \in {"landing", "trajectory"}
    /\ sim' = sim_step(sim, hit)
    /\ op' = "step"
    /\ UNCHANGED <<prog, ret, width, px, pre, preHit, mid, midHit, walled, didReset, landing_x, target_x, frames>>

\* the running call of predict_trajectory goes through one pass of its inner loop
PointsStep ==
    /\ sim.running
    /\ sim.fn = "points"
    /\ ~sim.filtering
    /\ \E n \in {points_step(sim, hit, px)} :
         /\ n.exact
         /\ sim' = n.m
    /\ op' = "step"
    /\ UNCHANGED <<prog, ret, width, px, pre, preHit, mid, midHit, walled, didReset, landing_x, target_x, frames>>

\* the last loop of predict_trajectory goes through one point
FilterStep ==
    /\ sim.running
    /\ sim.filtering
    /\ \E n \in {filter_step(sim)} :
         /\ n.exact
         /\ sim' = n.m
    /\ op' = "filter"
    /\ UNCHANGED <<prog, ret, width, px, pre, preHit, mid, midHit, walled, didReset, landing_x, target_x, frames>>

PredictNext == CallLanding \/ CallTrajectory \/ CallPoints \/ PredictStep \/ PointsStep \/ FilterStep

PredictSpec == PredictInit /\ [][PredictNext]_vars

----------------------------------------------------------------------------
(* Properties of the physics calls (checked under CallSpec)                *)

\* squared distance from the ball's centre to the closest point of rect, over b.den^2
RectDist2(b, rect) == Len2(b.x - closest_x(b, rect), b.y - closest_y(b, rect))
\* squared distance from the ball's centre to the semicircle's centre, over b.den^2
CircleDist2(b, p) == Len2(b.x - circle_cx(p) * b.den, b.y - circle_cy * b.den)

TouchesLeft(b, p) == RectDist2(b, left_rect(p)) <= Sq(b.radius * b.den)
TouchesRight(b, p) == RectDist2(b, right_rect(p)) <= Sq(b.radius * b.den)
TouchesCircle(b, p) == CircleDist2(b, p) <= Sq((outer_r + b.radius) * b.den)

\* the sub-shape a call on a ball moving down resolves: the first one touched, in the
\* order left leg, right leg, semicircle
FirstShape(b, p) ==
    IF TouchesLeft(b, p) THEN "left"
    ELSE IF TouchesRight(b, p) THEN "right"
    ELSE IF TouchesCircle(b, p) THEN "circle"
    ELSE "none"

\* the two rationals a/ad and b/bd are equal
EqQ(a, ad, b, bd) == a * bd = b * ad

\* everything of the program's state but the ball's position and velocity is as it was
OnlyBallMoved ==
    /\ ball.radius = pre.radius
    /\ hit = preHit

\* C1: check_wall_collision clamps x to radius and negates vx at the left wall, else
\* clamps x to W - radius and negates vx at the right wall; independently clamps y to
\* radius and negates vy at the top wall; changes nothing else, never reacts to the
\* bottom edge, and returns True exactly when one of the three cases fired.
C1_WallContract ==
    (op = "wall" /\ width >= 2 * pre.radius) =>
        LET r == pre.radius
            L == pre.x - r * pre.den <= 0
            R == ~L /\ pre.x + r * pre.den >= width * pre.den
            T == pre.y - r * pre.den <= 0
        IN  /\ ball.den = pre.den
            /\ L => ball.x = r * pre.den /\ ball.vx = -pre.vx
            /\ R => ball.x = (width - r) * pre.den /\ ball.vx = -pre.vx
            /\ (~L /\ ~R) => ball.x = pre.x /\ ball.vx = pre.vx
            /\ T => ball.y = r * pre.den /\ ball.vy = -pre.vy
            /\ ~T => ball.y = pre.y /\ ball.vy = pre.vy
            /\ OnlyBallMoved
            /\ ret = (L \/ R \/ T)

\* a ball far below the bottom edge, at the left wall of the narrowest window, where
\* the right-wall test is true as well: only the left case fired
C1_Witness ==
    /\ op = "wall" /\ ret = TRUE
    /\ width = 2 * pre.radius
    /\ pre.x = pre.radius /\ pre.vx # 0
    /\ pre.y - pre.radius > WINDOW_HEIGHT
    /\ ball.y = pre.y /\ ball.vy = pre.vy /\ ball.vx = -pre.vx

\* C2: every wall or paddle collision preserves speed: vx'^2 + vy'^2 after a call of
\* check_wall_collision or check_paddle_collision equals vx^2 + vy^2 before it.
C2_SpeedPreserved ==
    op \in {"wall", "paddle"} =>
        (Sq(ball.vx) + Sq(ball.vy)) * Sq(pre.den) = (Sq(pre.vx) + Sq(pre.vy)) * Sq(ball.den)

\* an oblique paddle hit: both velocity components changed
C2_Witness ==
    /\ op = "paddle" /\ ret = TRUE
    /\ ~EqQ(ball.vx, ball.den, pre.vx, pre.den)
    /\ ~EqQ(ball.vy, ball.den, pre.vy, pre.den)
    /\ ~EqQ(ball.vy, ball.den, -pre.vy, pre.den)

\* C3: after check_paddle_collision reports a hit on a sub-shape the ball's centre is
\* at distance >= radius from that sub-shape (>= outerRadius + radius from the circle's
\* centre), and after check_wall_collision it is at distance >= radius from the left,
\* right and top walls.
C3_Depenetration ==
    /\ (op = "paddle" /\ ret = TRUE) =>
          LET sh == FirstShape(pre, px)
          IN  /\ sh = "left" => RectDist2(ball, left_rect(px)) >= Sq(ball.radius * ball.den)
              /\ sh = "right" => RectDist2(ball, right_rect(px)) >= Sq(ball.radius * ball.den)
              /\ sh = "circle" =>
                    CircleDist2(ball, px) >= Sq((outer_r + ball.radius) * ball.den)
    /\ (op = "wall" /\ width >= 2 * pre.radius) =>
          /\ ball.x - ball.radius * ball.den >= 0
          /\ ball.x + ball.radius * ball.den <= width * ball.den
          /\ ball.y - ball.radius * ball.den >= 0

\* C4: check_paddle_collision called with vy <= 0 returns False and leaves the ball
\* unchanged, whatever the overlap with the paddle.
C4_UpwardIgnored ==
    (op = "paddle" /\ pre.vy <= 0) => (ret = FALSE /\ ball = pre /\ OnlyBallMoved)

\* a ball moving up (or level) whose centre is inside the left leg
C4_Witness ==
    /\ op = "paddle" /\ pre.vy <= 0
    /\ RectDist2(pre, left_rect(px)) = 0

\* C5: one call reflects the velocity at most once: the sub-shapes are tried in the
\* order left leg, right leg, semicircle and only the first one touched is applied.
C5_FirstHitOnly ==
    (op = "paddle" /\ pre.vy > 0) =>
        LET sh == FirstShape(pre, px)
        IN  /\ sh = "left" => ball = leg_test(pre, left_rect(px)).ball /\ ret = TRUE
            /\ sh = "right" => ball = leg_test(pre, right_rect(px)).ball /\ ret = TRUE
            /\ sh = "circle" => ball = circle_test(pre, px).ball /\ ret = TRUE
            /\ sh = "none" => ball = pre /\ ret = FALSE

\* a ball that touches a leg and the semicircle at once, where applying the semicircle
\* after the leg would have changed the result
C5_Witness ==
    /\ op = "paddle" /\ pre.vy > 0 /\ ret = TRUE
    /\ FirstShape(pre, px) = "left"
    /\ TouchesCircle(pre, px)
    /\ TouchesCircle(ball, px)
    /\ circle_test(ball, px).ball # ball

\* C6: when the ball's centre coincides with the closest point of a leg rectangle or
\* with the semicircle's centre, check_paddle_collision reports a collision and
\* reflects with the fixed normal (0,-1): vx unchanged, vy negated.
C6_FallbackNormal ==
    (/\ op = "paddle" /\ pre.vy > 0
     /\ \/ RectDist2(pre, left_rect(px)) = 0
        \/ RectDist2(pre, right_rect(px)) = 0
        \/ CircleDist2(pre, px) = 0) =>
        /\ ret = TRUE
        /\ EqQ(ball.vx, ball.den, pre.vx, pre.den)
        /\ EqQ(ball.vy, ball.den, -pre.vy, pre.den)

\* the ball's centre on the semicircle's centre
C6_Witness ==
    /\ op = "paddle" /\ pre.vy > 0 /\ ret = TRUE
    /\ CircleDist2(pre, px) = 0
    /\ ball.vy < 0

----------------------------------------------------------------------------
(* Properties of the brick scan (checked under CallSpec)                   *)

\* the bricks, not destroyed in h, whose rectangle intersects the bounding square of b
Overlapped(b, h) == {i \in Bricks : ~h[i] /\ CollideRect(BallRect(b), BrickRect(i))}

\* |brickCenterX - ball.x| > |brickCenterY - ball.y| for brick i, over b.den
Sideways(b, i) ==
    Abs((BrickX(i) + BRICK_WIDTH \div 2) * b.den - b.x)
        > Abs((BrickY(i) + BRICK_HEIGHT \div 2) * b.den - b.y)

\* what the scan of the bricks is to do on (pre, preHit) but for the count of the
\* velocity components that change
BrickScanned ==
    op = "brick" =>
        IF Overlapped(pre, preHit) = {}
        THEN ret = -1 /\ ball = pre /\ hit = preHit
        ELSE LET i == SetMin(Overlapped(pre, preHit))
             IN  /\ ret = i
                 /\ ball.x = pre.x /\ ball.y = pre.y /\ ball.den = pre.den
                 /\ ball.radius = pre.radius
                 /\ IF Sideways(pre, i)
                    THEN ball.vx = -pre.vx /\ ball.vy = pre.vy
                    ELSE ball.vx = pre.vx /\ ball.vy = -pre.vy
                 /\ hit[i]

\* C7 as stated: check_brick_collision takes the first non-destroyed brick, in list
\* order, whose rectangle intersects the ball's bounding square, negates vx if
\* |brickCenterX - ball.x| > |brickCenterY - ball.y| and vy otherwise, so that exactly
\* one velocity component changes; the position is unchanged, the brick is returned and
\* marked destroyed; with no such brick nothing changes and None is returned.
C7_AsStated ==
    /\ BrickScanned
    /\ (op = "brick" /\ ret # -1) => ((ball.vx # pre.vx) # (ball.vy # pre.vy))

\* C7, amended: as C7_AsStated, but of the two velocity components exactly one is
\* negated and the other kept, so that one component changes when the negated one is
\* not zero and none changes when it is zero.
C7_BrickContract ==
    /\ BrickScanned
    /\ (op = "brick" /\ ret # -1) =>
          /\ (ball.vx = -pre.vx /\ ball.vy = pre.vy) \/ (ball.vx = pre.vx /\ ball.vy = -pre.vy)
          /\ ((ball.vx # pre.vx) # (ball.vy # pre.vy))
                <=> (IF Sideways(pre, ret) THEN pre.vx # 0 ELSE pre.vy # 0)

\* the scan passes over a destroyed brick the ball overlaps and stops at a later one,
\* at equal horizontal and vertical distance from its centre, whose vy it negates
C7_Witness ==
    /\ op = "brick" /\ ret # -1
    /\ \E j \in Bricks : j < ret /\ preHit[j] /\ CollideRect(BallRect(pre), BrickRect(j))
    /\ Abs((BrickX(ret) + BRICK_WIDTH \div 2) * pre.den - pre.x)
          = Abs((BrickY(ret) + BRICK_HEIGHT \div 2) * pre.den - pre.y)
    /\ pre.vy # 0 /\ ball.vy = -pre.vy

----------------------------------------------------------------------------
(* Properties of the frames (checked under Spec)                           *)

\* the bricks destroyed by the last step
NewlyDestroyed == {i \in Bricks : hit[i] /\ ~preHit[i]}

\* the bricks within one row and one column of brick idx
Window(idx) ==
    {i \in Bricks : /\ Abs(BrickRow(i) - BrickRow(idx)) <= 1
                    /\ Abs(BrickCol(i) - BrickCol(idx)) <= 1}

\* the frame's collision pass met a ball whose bounding square overlapped more than
\* one brick not destroyed
ManyOverlapped == op = "frame" /\ Cardinality(Overlapped(mid, midHit)) > 1

\* C8 as stated: when the ball's bounding square overlaps N > 1 bricks not destroyed,
\* the frame destroys exactly one brick, the first of them in row-major order.
C8_AsStated ==
    ManyOverlapped => NewlyDestroyed = {SetMin(Overlapped(mid, midHit))}

\* C8, amended: when the ball's bounding square overlaps N > 1 bricks not destroyed,
\* the first of them in row-major order is the only brick the scan picks; if it is not
\* special it is the only brick the frame destroys, and if it is special the frame
\* destroys it and the bricks of its 3x3 window not yet destroyed, and no other.
C8_OneBrickPicked ==
    ManyOverlapped =>
        LET first == SetMin(Overlapped(mid, midHit))
        IN  /\ ret = first
            /\ ~special[first] => NewlyDestroyed = {first}
            /\ special[first] => NewlyDestroyed = {i \in Window(first) : ~preHit[i]}

\* two bricks overlapped, the first not special: the second stays
C8_Witness ==
    /\ ManyOverlapped
    /\ ~special[ret]
    /\ \E j \in Overlapped(mid, midHit) : j # ret /\ ~hit[j]

\* C9: when the brick hit in a frame is special, after the frame every brick within one
\* row and one column of it (inside the grid) is destroyed, and every other brick has
\* the destroyed flag it had before the frame.
C9_SpecialClear ==
    (op = "frame" /\ ret # -1 /\ special[ret]) =>
        \A i \in Bricks : IF i \in Window(ret) THEN hit[i] ELSE hit[i] = preHit[i]

\* a special brick at the left end of its row is hit while the brick at the right end
\* of the row above is not destroyed: the clear does not reach it
C9_Witness ==
    /\ op = "frame" /\ ret # -1 /\ special[ret]
    /\ BrickCol(ret) = 0 /\ ret > 0
    /\ ~hit[ret - 1]
    /\ \E i \in Window(ret) : i # ret /\ ~preHit[i]

\* C10: destroyed flags are cleared by reset_bricks only: a step that takes a brick's
\* destroyed flag from true to false is a frame that ran reset_bricks, so that without
\* reset_bricks the set of destroyed bricks only grows.
C10_DestroyedMonotone ==
    [][(\E i \in Bricks : hit[i] /\ ~hit'[i]) => didReset']_vars

\* a frame without reset_bricks that destroys a brick while another is already destroyed
C10_Witness ==
    /\ op = "frame" /\ ~didReset
    /\ NewlyDestroyed # {}
    /\ \E i \in Bricks : preHit[i] /\ hit[i]

----------------------------------------------------------------------------
(* Rounds: the last brick and the lost ball *)

\* the bricks the brick scan of the frame still saw standing
Remaining(h) == {i \in Bricks : ~h[i]}

\* the frame's brick scan destroyed the only brick that was left
LastBrickDestroyed ==
    /\ op = "frame"
    /\ ret # -1
    /\ Remaining(midHit) = {ret}

\* C11: when a collision destroys the last remaining brick, then outside autoplay the
\* round restarts (every brick is standing again and the ball is attached to the
\* paddle), and in autoplay it does not.
C11_RoundRestart ==
    LastBrickDestroyed =>
        IF auto THEN ~attached /\ Remaining(hit) = {}
                ELSE attached /\ Remaining(hit) = Bricks

\* the ball the bottom-edge test of the last frame saw was below the window
BelowBottom ==
    /\ op = "frame"
    /\ walled.y - walled.radius * walled.den > WINDOW_HEIGHT * walled.den

\* C12: when the ball is below the bottom edge after the wall check of a frame, then
\* outside autoplay every brick is standing again, the ball is attached on the paddle
\* with velocity (0,0) and the boost is cleared (inactive, saved velocity 0); in
\* autoplay the branch changes no brick's flag, leaves the ball in flight, puts it at
\* y = WINDOW_HEIGHT - radius - 1 and gives it vy < 0.
C12_BallLost ==
    BelowBottom =>
        IF auto
        THEN /\ midHit = preHit
             /\ ~attached
             /\ mid.y = (WINDOW_HEIGHT - mid.radius - 1) * mid.den
             /\ mid.vy < 0
        ELSE /\ Remaining(hit) = Bricks
             /\ attached
             /\ ball.vx = 0 /\ ball.vy = 0
             /\ ball.x = (px + Paddle.width \div 2) * ball.den
             /\ ball.y = (Paddle.y - ball.radius) * ball.den
             /\ ~boost
             /\ normal.vx = 0 /\ normal.vy = 0

\* a boosted ball is lost outside autoplay after some bricks were destroyed
C12_Witness ==
    /\ BelowBottom
    /\ ~auto
    /\ Remaining(preHit) # Bricks
    /\ pre.vy = 5 * BALL_BOOST_MULTIPLIER
    /\ didReset

\* the autoplay branch of the bottom edge was taken
C12_AutoReached == BelowBottom /\ auto /\ Remaining(preHit) # Bricks

----------------------------------------------------------------------------
(* Properties of the prediction routines (checked under PredictSpec)       *)

\* the call has returned
Returned(fn) == sim.fn = fn /\ ~sim.running /\ op # "init"

\* C13: the three prediction routines never change live state: the ball's x, y, vx, vy
\* and power-up scale, every brick's destroyed and special flag and the paddle are
\* after every step of a call what they were before it.
C13_NoMutation ==
    [][op' \in {"call", "step", "filter"} =>
          UNCHANGED <<ball, scale, end_time, hit, special, paddle_pos, px>>]_vars

\* predict_trajectory has returned points after simulating bounces, its simulated
\* ball elsewhere than the live one
C13_Witness ==
    /\ Returned("points")
    /\ sim.bounces > 0
    /\ Len(sim.out_pts) > 0
    /\ sim.b.x # ball.x * sim.b.den
    /\ sim.b.vy # ball.vy * sim.b.den

\* the live ball is outside the playfield
Outside(b, w, h) == b.x < 0 \/ b.x > w * b.den \/ b.y < 0 \/ b.y > h * b.den

\* C15: every value other than None that predict_landing_x_trajectory and
\* predict_ball_landing_x return lies in [0, width].
C15_LandingInWindow ==
    (\/ Returned("landing") \/ Returned("trajectory")) /\ sim.result.some
        => 0 <= sim.result.x /\ sim.result.x <= sim.width

\* a landing x was predicted for a ball that started outside the playfield
C15_Witness ==
    /\ Returned("trajectory")
    /\ sim.result.some
    /\ Outside(ball, sim.width, sim.height)
    /\ sim.bounces > 1

\* a landing routine has returned
LandingReturned == Returned("landing") \/ Returned("trajectory")

\* the live ball moves straight up, no faster than the stride
StraightUp == ball.vx = 0 /\ ball.vy < 0 /\ -ball.vy <= step * ball.den

\* no brick still standing shares a column of pixels with the simulated ball
ColumnClear ==
    LET rect == BallRect([ball EXCEPT !.radius = ball.radius * scale])
    IN  \A i \in Bricks :
           ~hit[i] => ~(rect.left < BrickRect(i).right /\ BrickRect(i).left < rect.right)

\* the scenario: ball at (400,300), velocity (0,-6), radius 10, an 800x600 window,
\* paddle y = 550, no brick in the ball's path
Scenario ==
    /\ ball = Ball(400, 300, 10, 0, -6)
    /\ scale = 1
    /\ sim.width = 800 /\ sim.height = 600 /\ sim.paddle_y = 550
    /\ ColumnClear
    /\ sim.fn \in {"landing", "trajectory"}

\* in the scenario the ball bounces once, off the top wall, which turns vy into +6 and
\* leaves vx alone, and the prediction returns 400
ScenarioHolds ==
    Scenario =>
        /\ sim.bounces <= 1
        /\ sim.bounces = 1 => sim.b.vx = 0 /\ sim.b.vy = 6 * sim.b.den
        /\ ~sim.running /\ op # "init" => sim.bounces = 1 /\ sim.result = Some(400)

\* the least k with k * d >= n, for d > 0
CeilDiv(n, d) == IF n <= 0 THEN 0 ELSE (n + d - 1) \div d

\* the passes of the while loop a ball moving straight up between the side walls
\* takes to the top wall and from there down to the paddle line
PassesNeeded ==
    LET r == ball.radius * scale * ball.den
    IN  Max(1, CeilDiv(ball.y - r, -ball.vy))
          + Max(1, CeilDiv(sim.paddle_y * ball.den - 2 * r, -ball.vy))

\* the ball starts between the side walls, its first step does not end below the
\* window, and the paddle line is within reach of max_iter passes
Reachable ==
    LET r == ball.radius * scale * ball.den
    IN  /\ r < ball.x /\ ball.x < sim.width * ball.den - r
        /\ ball.y + ball.vy - r <= sim.height * ball.den
        /\ PassesNeeded <= sim.max_iter

\* C16 as stated: the scenario, and for every ball with vx = 0, vy < 0, |vy| <= stride
\* whose column holds no standing brick the prediction returns int(ball.x).
C16_AsStated ==
    /\ ScenarioHolds
    /\ LandingReturned /\ StraightUp /\ ColumnClear
          => sim.result = Some(Trunc(ball.x, ball.den))

\* C16: the scenario, and for every ball with vx = 0, vy < 0, |vy| <= stride that
\* starts between the side walls and not below the window, whose column holds no
\* standing brick and which reaches the paddle line within max_iter passes, the
\* prediction returns int(ball.x).
C16_NoDrift ==
    /\ ScenarioHolds
    /\ LandingReturned /\ StraightUp /\ ColumnClear /\ Reachable
          => sim.result = Some(Trunc(ball.x, ball.den))

\* the scenario's call has returned 400 after its bounce off the top wall
C16_Witness ==
    /\ Scenario
    /\ Returned("trajectory")
    /\ sim.bounces = 1
    /\ sim.result = Some(400)
    /\ sim.b.vy = 6 * sim.b.den

\* max_iter of the routine that runs
Budget ==
    CASE sim.fn = "trajectory" -> 3000
      [] sim.fn \in {"landing", "points"} -> 2000
      [] OTHER -> 0

\* k = max(1, ceil(speed / stride)) for the simulated velocity
IsCeil(k, b) ==
    /\ k >= 1
    /\ Sq(k * step * b.den) >= Len2(b.vx, b.vy)
    /\ k > 1 => Sq((k - 1) * step * b.den) < Len2(b.vx, b.vy)

\* the counters of a call within their bounds: the while loop at most max_iter times
\* round, the inner loop at most max(1, ceil(speed / stride)) times per round, the
\* simulated speed the one the call started with, and the last loop of
\* predict_trajectory within the points simulated
WithinBounds(m) ==
    /\ m.max_iter = Budget
    /\ m.it <= m.max_iter
    /\ m.it >= 1 => IsCeil(m.steps, m.b)
    /\ m.s <= m.steps
    /\ m.subs <= (m.it - 1) * m.steps + m.s
    /\ Len2(m.b.vx, m.b.vy) * Sq(m.v0.den) = Len2(m.v0.vx, m.v0.vy) * Sq(m.b.den)
    /\ m.fn = "points" /\ m.it >= 1 => Len(m.pts) = m.subs + 1 /\ m.k <= Len(m.pts)

\* a step of a call brings it nearer its return: one more pass of the inner loop, or
\* from the while loop on to the last loop, or one more point of the last loop, or
\* the return
Progress(m, n) ==
    \/ ~n.running
    \/ ~m.filtering /\ ~n.filtering /\ n.subs = m.subs + 1
    \/ ~m.filtering /\ n.filtering /\ n.subs = m.subs /\ n.k = 1
    \/ m.filtering /\ n.filtering /\ n.k = m.k + 1 /\ n.pts = m.pts

\* C17: every call of the three prediction routines terminates: the outer loop runs
\* at most max_iter times (2000 for predict_ball_landing_x and predict_trajectory, 3000
\* for predict_landing_x_trajectory), each round makes at most max(1, ceil(speed /
\* stride)) passes of the inner loop, the simulated speed never grows, and every step
\* of a call uses up one of the boundedly many passes.
C17_Terminates ==
    [][op' \in {"step", "filter"} => Progress(sim, sim') /\ WithinBounds(sim')]_vars

\* a call has run its while loop max_iter times round with several passes of the
\* inner loop each time
C17_Witness ==
    /\ Returned("landing")
    /\ sim.it = max_iter_landing
    /\ sim.steps > 1
    /\ sim.subs = sim.it * sim.steps
    /\ ~sim.result.some

\* C18: predict_landing_x_trajectory returns no x once its bounce counter exceeds
\* max_bounces: then the result is None.
C18_BudgetIsFailure ==
    Returned("trajectory") /\ sim.bounces > sim.max_bounces => ~sim.result.some

\* the bounce budget ran out in a call that was still within max_iter
C18_Witness ==
    /\ Returned("trajectory")
    /\ sim.bounces = sim.max_bounces + 1
    /\ sim.it < sim.max_iter
    /\ ~sim.result.some

\* the live ball after one frame without contact: update_ball's position integration
\* followed by check_wall_collision
LiveFrame ==
    check_wall_collision([ball EXCEPT !.x = ball.x + ball.vx, !.y = ball.y + ball.vy],
                         sim.width, sim.height).ball

\* the ball predict_landing_x_trajectory tests in its first pass: the live ball's next
\* position with the simulator's radius r = int(radius * _powerup_scale)
FirstPass == [ball EXCEPT !.x = ball.x + ball.vx, !.y = ball.y + ball.vy,
                          !.radius = sim.b.radius]

\* b touches no live brick and no part of the paddle
Untouched(b) ==
    /\ scan_bricks(BallRect(b), hit, 0) = -1
    /\ RectDist2(b, left_rect(px)) > Sq(b.radius * b.den)
    /\ RectDist2(b, right_rect(px)) > Sq(b.radius * b.den)
    /\ CircleDist2(b, px) > Sq((outer_r + b.radius) * b.den)

\* predict_landing_x_trajectory has gone once round its while loop, in one pass of the
\* inner loop (speed <= stride), without returning, and neither the live ball nor the
\* simulated one touches a brick or the paddle
OneRoundNoContact ==
    /\ sim.fn = "trajectory"
    /\ op = "step"
    /\ sim.it = 1 /\ sim.steps = 1 /\ sim.s = 1
    /\ sim.running
    /\ Untouched(LiveFrame)
    /\ Untouched(FirstPass)

\* C19: for every ball state with speed <= stride and no paddle or brick contact, one
\* round of predict_landing_x_trajectory's simulation gives the position and velocity
\* one live frame gives (position integration, then check_wall_collision), also while
\* the power-up scale is not 1 and also when a side wall and the top wall are reached
\* in the same step.
C19_SameWallRule ==
    OneRoundNoContact =>
        /\ EqQ(sim.b.x, sim.b.den, LiveFrame.x, LiveFrame.den)
        /\ EqQ(sim.b.y, sim.b.den, LiveFrame.y, LiveFrame.den)
        /\ EqQ(sim.b.vx, sim.b.den, LiveFrame.vx, LiveFrame.den)
        /\ EqQ(sim.b.vy, sim.b.den, LiveFrame.vy, LiveFrame.den)

\* the length of the path through points a .. b of p, in units of 1 / CumScale:
\* the sums of the lower and of the upper bounds of its segments
RECURSIVE PathLo(_, _, _)
PathLo(p, a, b) ==
    IF b <= a THEN 0
    ELSE IF b = a + 1 THEN SegLo(p[a], p[b])
    ELSE PathLo(p, a, (a + b) \div 2) + PathLo(p, (a + b) \div 2, b)

RECURSIVE PathHi(_, _, _)
PathHi(p, a, b) ==
    IF b <= a THEN 0
    ELSE IF b = a + 1 THEN SegHi(p[a], p[b])
    ELSE PathHi(p, a, (a + b) \div 2) + PathHi(p, (a + b) \div 2, b)

\* the cumulative path length from the start point to the j-th simulated point
CumTo(j) == [lo |-> PathLo(sim.pts, 1, j), hi |-> PathHi(sim.pts, 1, j)]

\* the live ball is at rest
AtRest == sim.v0.vx = 0 /\ sim.v0.vy = 0

\* the index in pts of the first point returned (Len(pts) + 1 when none is)
FirstKept == Len(sim.pts) - Len(sim.out_pts) + 1

\* C20: predict_trajectory returns, in simulation order, exactly the simulated points
\* after the start point whose cumulative path length from the start point is >= live
\* speed x delay_s: the output is the suffix of the simulated points that starts at the
\* first such point (path length never decreases along the sequence), the point before
\* it is short of the offset, and the output is empty when the ball is at rest or the
\* whole path is shorter than the offset.
C20_DelayFilter ==
    Returned("points") =>
        IF AtRest THEN sim.out_pts = << >>
        ELSE /\ FirstKept >= 2
             /\ sim.out_pts = SubSeq(sim.pts, FirstKept, Len(sim.pts))
             /\ FirstKept <= Len(sim.pts) => Reached(CumTo(FirstKept), sim.v0, sim.delay)
             /\ FirstKept > 2 => NotReached(CumTo(FirstKept - 1), sim.v0, sim.delay)

\* a call returned after a bounce with some points dropped and the others returned
C20_Witness ==
    /\ Returned("points")
    /\ sim.bounces >= 1
    /\ Len(sim.out_pts) >= 1
    /\ FirstKept > 2

\* a moving ball whose whole simulated path is shorter than the offset: nothing returned
C20_ShortPath ==
    /\ Returned("points")
    /\ ~AtRest
    /\ Len(sim.pts) >= 2
    /\ sim.out_pts = << >>

\* the increments (dx, dy) of the running pass of the while loop are the simulated
\* velocity (vx, vy) over steps
IncrementsFollow(m) ==
    /\ m.d.dx * m.b.den * m.steps = m.b.vx * m.d.den
    /\ m.d.dy * m.b.den * m.steps = m.b.vy * m.d.den

\* C24: in the landing prediction with two or more sub-steps per outer iteration, after
\* a wall or brick bounce at a sub-step that is not the last of its iteration the
\* remaining sub-steps move the simulated ball with the reflected velocity.
C24_ReflectedSubSteps ==
    [][/\ op' = "step"
       /\ sim'.fn \in {"landing", "trajectory"}
       /\ sim'.running
       /\ sim'.bounces > sim.bounces
       /\ sim'.s < sim'.steps
       => IncrementsFollow(sim')]_vars

\* the ball of FastScene, heading straight at the top wall with no brick in its path:
\* a landing routine has returned for it
C24_StraightReturned ==
    /\ sim.fn \in {"landing", "trajectory"}
    /\ Returned(sim.fn)
    /\ ball.vx = 0 /\ ball.vy = -2 * step * ball.den
    /\ ColumnClear

----------------------------------------------------------------------------
(* The direction of a paddle bounce (checked under CallSpec)                *)

\* the normal (nx, ny) check_paddle_collision hands _do_reflect for ball b: from the
\* closest point of the first leg touched, or from the semicircle's centre, to the
\* ball's centre, numerators over b.den; (0, -1) when the two coincide
ContactNormal(b, p) ==
    LET sh == FirstShape(b, p)
        raw == IF sh = "left"
               THEN <<b.x - closest_x(b, left_rect(p)), b.y - closest_y(b, left_rect(p))>>
               ELSE IF sh = "right"
               THEN <<b.x - closest_x(b, right_rect(p)), b.y - closest_y(b, right_rect(p))>>
               ELSE <<b.x - circle_cx(p) * b.den, b.y - circle_cy * b.den>>
    IN  IF raw = <<0, 0>> THEN <<0, -1>> ELSE raw

\* C25: after check_paddle_collision reports a hit the ball's new velocity does not
\* point into the surface it hit: v' . n >= 0 for the contact normal n used in the
\* reflection, for every ball with vy > 0.
C25_NotIntoSurface ==
    op = "paddle" /\ ret = TRUE =>
        ball.vx * ContactNormal(pre, px)[1] + ball.vy * ContactNormal(pre, px)[2] >= 0

----------------------------------------------------------------------------
(* The paddle (checked under Spec and RoundSpec)                            *)

\* C23: in autoplay mode with the ball in flight, when the landing prediction returns
\* None the paddle is not moved: the rendered paddle position at the end of
\* update_paddle is what it was when the frame started.
C23_NoneKeepsPaddle ==
    [][op' = "frame" /\ auto /\ ~attached /\ landing_x' = -1 => px' = px]_vars

\* the ball's velocity is BALL_BOOST_MULTIPLIER times the saved normal velocity
BoostedNormal ==
    /\ ball.vx * normal.den = BALL_BOOST_MULTIPLIER * normal.vx * ball.den
    /\ ball.vy * normal.den = BALL_BOOST_MULTIPLIER * normal.vy * ball.den

\* C26: whenever the boost is active at the end of a frame the ball's velocity is
\* BALL_BOOST_MULTIPLIER times the saved normal velocity, component by component, in
\* manual and in autoplay mode and across wall, paddle and brick collisions.
C26_BoostTimesNormal ==
    op = "frame" /\ boost => BoostedNormal

\* b lies inside the left, right and top walls
InsideWalls(b) ==
    /\ b.radius * b.den <= b.x
    /\ b.x <= (WINDOW_WIDTH - b.radius) * b.den
    /\ b.y >= b.radius * b.den

\* the paddle step of the last frame reported a hit
PaddleHit == check_paddle_collision(walled, px).collided

C28_PaddleSmoothing ==
    [][op' = "frame" =>
          /\ Abs(px' - px) <= PADDLE_MAX_STEP
          /\ px <= target_x' => px' <= target_x'
          /\ px >= target_x' => px' >= target_x'
          /\ target_x' \in 0..(WINDOW_WIDTH - Paddle.width)
          /\ px' \in 0..(WINDOW_WIDTH - Paddle.width)]_vars

\* a frame that moved the paddle by the interpolation step, short of its target
C28_Witness ==
    /\ op = "frame"
    /\ px # target_x
    /\ Abs(px - target_x) < PADDLE_MAX_STEP
    /\ paddle_pos # px * PosDen

\* a frame that moved the paddle by the full PADDLE_MAX_STEP
C28_FullStep ==
    /\ op = "frame"
    /\ Abs(px - target_x) > PADDLE_MAX_STEP
    /\ px \in {StartPaddleX - PADDLE_MAX_STEP, EdgePaddleX + PADDLE_MAX_STEP}

\* the ball at rest on the paddle drawn at p
OnPaddle(b, p) ==
    /\ b.vx = 0 /\ b.vy = 0
    /\ b.x = (p + Paddle.width \div 2) * b.den
    /\ b.y = (Paddle.y - b.radius) * b.den

\* C29: a frame that ends with the ball attached leaves it at rest at
\* (paddle_draw_x + paddle.width // 2, paddle.y - radius), and a frame that starts
\* with it attached processes no collision (bricks, special flags, power-up, boost
\* and saved velocity are as before, the ball stays attached); a launch request
\* detaches an attached ball with vy < 0 and changes nothing while the ball is in
\* flight; toggling autoplay leaves the ball, the bricks and the attached flag alone.
C29_AttachedLaunchToggle ==
    [][/\ op' = "frame" /\ attached' => OnPaddle(ball', px')
       /\ op' = "frame" /\ attached =>
             /\ attached'
             /\ UNCHANGED <<hit, special, scale, end_time, boost, normal, auto>>
       /\ op' = "launch" =>
             IF attached
             THEN ~attached' /\ ball'.vy < 0
             ELSE UNCHANGED <<ball, hit, special, attached, auto, boost, normal,
                              paddle_pos, scale, end_time>>
       /\ op' = "toggle" => UNCHANGED <<ball, hit, special, attached>>]_vars

\* a frame in which the ball was lost and put back on the paddle, the paddle having
\* moved in that frame
C29_Witness ==
    /\ op = "frame" /\ attached /\ didReset
    /\ px # StartPaddleX
    /\ pre.vy > 0
    /\ OnPaddle(ball, px)

\* an attached ball launched in autoplay and aimed at a brick
C29_LaunchedAimed ==
    /\ op = "launch" /\ auto /\ ~attached
    /\ ball.vy < 0
    /\ Abs(ball.vx) # Abs(ball.vy)

\* the bricks flagged special
SpecialBricks == {i \in Bricks : special[i]}

\* C30: every reachable state has exactly 5 special bricks: the state after
\* construction has, a frame that ran reset_bricks ends with 5 special bricks none of
\* which is destroyed, and no other step (a frame that destroys bricks or not, a
\* launch, a toggle) changes a special flag.
C30_FiveSpecial ==
    /\ Cardinality(SpecialBricks) = SPECIAL_COUNT
    /\ [][/\ Cardinality(SpecialBricks') = SPECIAL_COUNT
          /\ didReset' => \A i \in SpecialBricks' : ~hit'[i]
          /\ ~didReset' => special' = special]_vars

\* a frame that ran reset_bricks on a wall with destroyed bricks, special ones among
\* them
C30_Witness ==
    /\ op = "frame" /\ didReset
    /\ \E i \in Bricks : preHit[i] /\ ~hit[i]
    /\ Cardinality(SpecialBricks) = SPECIAL_COUNT

\* a frame that destroyed a special brick and its neighbours and left the flags alone
C30_DestroyedSpecial ==
    /\ op = "frame" /\ ~didReset
    /\ \E i \in SpecialBricks : hit[i] /\ ~preHit[i]

----------------------------------------------------------------------------
(* Properties of rounds with the power-up running (checked under RoundSpec) *)

\* the frame just run hit a special brick: _handle_special_brick called
\* apply_temporary_scale(2.0, 1000)
Applied == ret # -1 /\ special[ret]

\* C21: the power-up scale is a polled timeout: after apply_temporary_scale(s, d) the
\* scale is s, and a frame whose clock has reached the deadline ends with the scale
\* back at 1, whether the ball is in flight, attached to the paddle, or stopped after
\* the last brick.
C21_PolledTimeout ==
    [][op' = "frame" =>
          /\ Applied' => scale' = 2 /\ end_time' = now' + 1000
          /\ end_time # 0 /\ now' >= end_time /\ ~Applied' => scale' = 1]_vars

\* C22: in every reachable state radius * scale > 0 for the ball: the scale is 1 or
\* the boost factor 2, and the radius is the one the ball was constructed with.
C22_ScalePositive ==
    /\ ball.radius * scale > 0
    /\ scale \in {1, 2}
    /\ ball.radius = BALL_RADIUS

\* a frame past the deadline of the running power-up that hit a special brick: the
\* scale was cleared and set again
C22_Witness ==
    /\ op = "frame"
    /\ Applied
    /\ now >= 1000
    /\ scale = 2 /\ end_time = now + 1000

=============================================================================
